---- MODULE Spec2Model ----
(***************************************************************************)
(* Model of the export-structure validator core:                           *)
(*   - ChangeDetector   (src/core/changeDetection.ts)                      *)
(*   - VersionManager   (src/core/versionManager.ts)                       *)
(*   - ExportValidator  (src/core/validator.ts)                            *)
(*   - SchemaInferenceEngine (src/analyzers/schemaInference.ts)            *)
(***************************************************************************)
EXTENDS Integers, Sequences, FiniteSets, TLC

(***************************************************************************)
(* JavaScript values.  A value is a record [t, v]: t is its real type and  *)
(* v its payload.  An object's payload is the sequence of its entries      *)
(* [k, x] in key insertion order, an array's payload the sequence of its   *)
(* elements.                                                               *)
(***************************************************************************)
Undefined == [t |-> "undefined", v |-> <<>>]
JNull == [t |-> "null", v |-> <<>>]
\* a function object; two functions are the same value only if they are the same object
JFn(id) == [t |-> "function", v |-> id]
JStr(s) == [t |-> "string", v |-> s]
JNum(n) == [t |-> "number", v |-> n]
JObj(entries) == [t |-> "object", v |-> entries]
JArr(elems) == [t |-> "array", v |-> elems]
Entry(k, x) == [k |-> k, x |-> x]

\* Object.keys(o): the keys in insertion order
Keys(o) == [i \in 1..Len(o.v) |-> o.v[i].k]
KeySet(o) == {o.v[i].k : i \in 1..Len(o.v)}
HasKey(o, k) == k \in KeySet(o)
\* o[k]: the value under key k, undefined when absent
Get(o, k) ==
  IF o.t = "object" /\ HasKey(o, k)
  THEN o.v[CHOOSE i \in 1..Len(o.v) : o.v[i].k = k].x
  ELSE Undefined

\* Concatenation of a sequence of sequences
RECURSIVE Flatten(_)
Flatten(ss) == IF ss = <<>> THEN <<>> ELSE Head(ss) \o Flatten(Tail(ss))

(***************************************************************************)
(* deep-diff's diff(lhs, rhs) as used by compareZodSchemas: the list of    *)
(* differences [kind, path, lhs, rhs], kind N (new), D (deleted), E        *)
(* (edited) or A (array length change), path the keys from the root.       *)
(***************************************************************************)
Diff(kind, path, lhs, rhs) == [kind |-> kind, path |-> path, lhs |-> lhs, rhs |-> rhs]

RECURSIVE deepDiff(_, _, _)
deepDiff(lhs, rhs, path) ==
  IF lhs.t = "undefined" /\ rhs.t = "undefined" THEN <<>>
  ELSE IF lhs.t = "undefined" THEN <<Diff("N", path, lhs, rhs)>>
  ELSE IF rhs.t = "undefined" THEN <<Diff("D", path, lhs, rhs)>>
  ELSE IF lhs.t # rhs.t THEN <<Diff("E", path, lhs, rhs)>>
  ELSE IF lhs.t = "array" THEN
    LET i == Len(rhs.v)
        j == Len(lhs.v)
        m == IF i < j THEN i ELSE j
        \* trailing elements of the longer side, from the last index down
        \* (a DiffArray carries index and item, its lhs and rhs are not set)
        added == [n \in 1..(i - m) |-> Diff("A", path, Undefined, Undefined)]
        removed == [n \in 1..(j - m) |-> Diff("A", path, Undefined, Undefined)]
        common == [n \in 1..m |-> deepDiff(lhs.v[m + 1 - n], rhs.v[m + 1 - n],
                                           Append(path, ToString(m - n)))]
    IN added \o removed \o Flatten(common)
  ELSE IF lhs.t = "object" THEN
    LET akeys == Keys(lhs)
        pkeys == Keys(rhs)
        ofLhs == [n \in 1..Len(akeys) |->
                    deepDiff(lhs.v[n].x, Get(rhs, akeys[n]), Append(path, akeys[n]))]
        onlyRhs == SelectSeq(rhs.v, LAMBDA e : ~HasKey(lhs, e.k))
        ofRhs == [n \in 1..Len(onlyRhs) |->
                    deepDiff(Undefined, onlyRhs[n].x, Append(path, onlyRhs[n].k))]
    IN Flatten(ofLhs) \o Flatten(ofRhs)
  ELSE IF lhs.v # rhs.v THEN <<Diff("E", path, lhs, rhs)>>
  ELSE <<>>

(***************************************************************************)
(* ChangeDetector                                                          *)
(***************************************************************************)
\* A FileNode: name, type ("file" | "directory"), size, children in listing order
FileNode(name, type, size, children) ==
  [name |-> name, type |-> type, size |-> size, children |-> children]
File(name, size) == FileNode(name, "file", size, <<>>)
Dir(name, children) == FileNode(name, "directory", 0, children)

\* A FieldChange.  Paths are kept as their segments: a tree path is the
\* segments joined by "/", a schema path the segments joined by ".".
FieldChange(path, status, changes, severity, suggestedMigration) ==
  [path |-> path, status |-> status, changes |-> changes,
   severity |-> severity, suggestedMigration |-> suggestedMigration]

\* new Map(children.map(c => [c.name, c])): has / get by name
ChildNames(node) == {node.children[i].name : i \in 1..Len(node.children)}
ChildNamed(node, name) ==
  node.children[CHOOSE i \in 1..Len(node.children) :
                  /\ node.children[i].name = name
                  /\ \A j \in (i + 1)..Len(node.children) : node.children[j].name # name]

\* (a size change reported as a minor change)
SizeChangeAsMinor(currentPath) ==
  <<FieldChange(currentPath, "modified", <<>>, "minor", "File size changed")>>

\* the change pushed when the size of a file differs
SizeChange(currentPath) ==
  <<FieldChange(currentPath, "modified", <<>>, "patch", "File size changed")>>

\* (a kind mismatch that also reports an entry beneath the node)
TypeChangeAndBeneath(currentPath) ==
  <<FieldChange(currentPath, "modified", <<"type_changed">>, "breaking", "File type changed"),
    FieldChange(Append(currentPath, "a"), "removed", <<>>, "breaking",
                "Remove references to")>>

\* The change pushed when the kinds of the two nodes differ (lines 45-53)
TypeChange(currentPath) ==
  <<FieldChange(currentPath, "modified", <<"type_changed">>, "breaking",
                "File type changed")>>

RECURSIVE compareFileStructure(_, _, _)
compareFileStructure(current, previous, basePath) ==
  LET currentPath == Append(basePath, current.name) IN
  IF current.type # previous.type THEN TypeChange(currentPath)
  ELSE IF current.type = "file" THEN
    IF current.size # previous.size THEN SizeChange(currentPath) ELSE <<>>
  ELSE
    LET onlyCurrent == SelectSeq(current.children,
                                 LAMBDA c : c.name \notin ChildNames(previous))
        onlyPrevious == SelectSeq(previous.children,
                                  LAMBDA c : c.name \notin ChildNames(current))
        both == SelectSeq(current.children, LAMBDA c : c.name \in ChildNames(previous))
        added == [i \in 1..Len(onlyCurrent) |->
                    FieldChange(Append(currentPath, onlyCurrent[i].name), "added", <<>>,
                                "minor", "New file/directory added")]
        removed == [i \in 1..Len(onlyPrevious) |->
                      FieldChange(Append(currentPath, onlyPrevious[i].name), "removed",
                                  <<>>, "breaking", "Remove references to")]
        nested == [i \in 1..Len(both) |->
                     compareFileStructure(both[i], ChildNamed(previous, both[i].name),
                                          currentPath)]
    IN added \o removed \o Flatten(nested)

\* JavaScript truthiness of a value
Falsy(x) ==
  \/ x.t \in {"undefined", "null"}
  \/ x.t = "string" /\ x.v = ""
  \/ x.t = "number" /\ x.v = 0
  \/ x.t = "boolean" /\ x.v = FALSE

\* typeName.replace('Zod', '').toLowerCase()
ZodTypeString(typeName) ==
  CASE typeName = "ZodString" -> "string"
    [] typeName = "ZodNumber" -> "number"
    [] typeName = "ZodBoolean" -> "boolean"
    [] typeName = "ZodNull" -> "null"
    [] typeName = "ZodUndefined" -> "undefined"
    [] typeName = "ZodAny" -> "any"
    [] typeName = "ZodArray" -> "array"
    [] typeName = "ZodObject" -> "object"
    [] typeName = "ZodUnion" -> "union"
    [] typeName = "ZodNullable" -> "nullable"
    [] typeName = "ZodOptional" -> "optional"
    [] OTHER -> typeName

getTypeString(value) ==
  IF value.t \in {"null", "undefined", "array"} THEN value.t
  ELSE IF value.t = "object" THEN
    LET typeName == Get(Get(value, "_def"), "typeName") IN
    IF ~Falsy(Get(value, "_def")) /\ ~Falsy(typeName) /\ typeName.t = "string"
    THEN ZodTypeString(typeName.v)
    ELSE "object"
  ELSE value.t

\* prevType.includes('null')
IncludesNull(typeString) == typeString \in {"null", "nullable"}

generateMigrationSuggestion(previous, current) ==
  LET prevType == getTypeString(previous)
      currType == getTypeString(current)
  IN IF IncludesNull(prevType) /\ ~IncludesNull(currType)
       THEN "Add null check before using"
     ELSE IF ~IncludesNull(prevType) /\ IncludesNull(currType)
       THEN "can now be null, add appropriate handling"
     ELSE IF prevType # currType
       THEN "Type changed, update type annotations and usage"
     ELSE "Review usage for compatibility"

\* The FieldChange compareZodSchemas pushes for one difference
SchemaFieldChange(path, change) ==
  LET fieldPath == <<path>> \o (IF change.path = <<>> THEN <<"undefined">> ELSE change.path)
      changeTypes == CASE change.kind = "N" -> <<"optional_added">>
                       [] change.kind = "D" -> <<"optional_removed">>
                       [] change.kind = "E" -> <<"type_changed">>
                       [] change.kind = "A" -> <<"type_changed">>
      severity == IF change.kind = "N" THEN "minor" ELSE "breaking"
      suggestedMigration ==
        CASE change.kind = "N" -> "New optional field added"
          [] change.kind = "D" -> "Remove field access"
          [] change.kind = "E" -> generateMigrationSuggestion(change.lhs, change.rhs)
          [] change.kind = "A" -> ""
  IN [path |-> fieldPath, status |-> "modified", changes |-> changeTypes,
      previousType |-> getTypeString(change.lhs), currentType |-> getTypeString(change.rhs),
      severity |-> severity, suggestedMigration |-> suggestedMigration]

compareZodSchemas(path, current, previous) ==
  LET schemaDiff == deepDiff(previous, current, <<>>)
  IN [i \in 1..Len(schemaDiff) |-> SchemaFieldChange(path, schemaDiff[i])]

\* (the test for a new schema inverted)
SchemaChangesAtInverted(path, current, previous) ==
  LET currentSchema == Get(current, path)
      previousSchema == Get(previous, path)
  IN IF ~Falsy(previousSchema)
       THEN <<FieldChange(<<path>>, "added", <<>>, "minor", "New schema added")>>
     ELSE IF Falsy(currentSchema)
       THEN <<FieldChange(<<path>>, "removed", <<>>, "breaking", "Remove usage of schema")>>
     ELSE compareZodSchemas(path, currentSchema, previousSchema)

\* (a removed schema classified like an added one)
SchemaChangesAtRemovedMinor(path, current, previous) ==
  LET currentSchema == Get(current, path)
      previousSchema == Get(previous, path)
  IN IF Falsy(previousSchema)
       THEN <<FieldChange(<<path>>, "added", <<>>, "minor", "New schema added")>>
     ELSE IF Falsy(currentSchema)
       THEN <<FieldChange(<<path>>, "removed", <<>>, "minor", "Remove usage of schema")>>
     ELSE compareZodSchemas(path, currentSchema, previousSchema)

\* The changes compareSchemas pushes for one schema name
SchemaChangesAt(path, current, previous) ==
  LET currentSchema == Get(current, path)
      previousSchema == Get(previous, path)
  IN IF Falsy(previousSchema)
       THEN <<FieldChange(<<path>>, "added", <<>>, "minor", "New schema added")>>
     ELSE IF Falsy(currentSchema)
       THEN <<FieldChange(<<path>>, "removed", <<>>, "breaking", "Remove usage of schema")>>
     ELSE compareZodSchemas(path, currentSchema, previousSchema)

compareSchemas(current, previous) ==
  LET onlyPrevious == SelectSeq(Keys(previous), LAMBDA k : ~HasKey(current, k))
      allPaths == Keys(current) \o onlyPrevious
  IN Flatten([i \in 1..Len(allPaths) |-> SchemaChangesAt(allPaths[i], current, previous)])

\* An ExportSnapshot: the file tree and the schema map (an object keyed by schema name)
Snapshot(structure, schemas) == [structure |-> structure, schemas |-> schemas]

detectChanges(current, previous) ==
  compareFileStructure(current.structure, previous.structure, <<>>)
    \o compareSchemas(current.schemas, previous.schemas)

calculateSeverity(changes) ==
  IF \E i \in 1..Len(changes) : changes[i].severity = "breaking" THEN "major"
  ELSE IF \E i \in 1..Len(changes) : changes[i].severity = "minor" THEN "minor"
  ELSE "patch"

(***************************************************************************)
(* JSON.parse(JSON.stringify(value)): how a snapshot comes back from disk. *)
(* stringify omits object properties whose value is undefined or a         *)
(* function, and writes null for such array elements.                      *)
(***************************************************************************)
RECURSIVE JsonRoundTrip(_)
JsonRoundTrip(value) ==
  IF value.t = "object" THEN
    LET kept == SelectSeq(value.v, LAMBDA e : e.x.t \notin {"undefined", "function"})
    IN JObj([i \in 1..Len(kept) |-> Entry(kept[i].k, JsonRoundTrip(kept[i].x))])
  ELSE IF value.t = "array" THEN
    JArr([i \in 1..Len(value.v) |->
            IF value.v[i].t \in {"undefined", "function"} THEN JNull
            ELSE JsonRoundTrip(value.v[i])])
  ELSE value

\* A snapshot as loadPreviousSnapshot / loadSnapshot reads it back
LoadedSnapshot(snapshot) ==
  Snapshot(snapshot.structure, JsonRoundTrip(snapshot.schemas))

(***************************************************************************)
(* Zod schema objects as JavaScript values, as far as the code reads them: *)
(* _def.typeName, _def.shape (a function returning the shape),             *)
(* _def.type, _def.innerType, _def.options, _def.checks.                   *)
(***************************************************************************)
ZodValue(typeName, defEntries) ==
  JObj(<<Entry("_def", JObj(defEntries \o <<Entry("typeName", JStr(typeName))>>))>>)
\* z.object(shape): inst identifies the schema instance holding the closure
ZodObjectValue(shape, inst) == ZodValue("ZodObject", <<Entry("shape", JFn(<<inst, shape>>))>>)
ZodNumberValue == ZodValue("ZodNumber", <<>>)
ZodStringValue(checks) ==
  ZodValue("ZodString",
           <<Entry("checks", JArr([i \in 1..Len(checks) |->
                                     JObj(<<Entry("kind", JStr(checks[i]))>>)]))>>)

JBool(b) == [t |-> "boolean", v |-> b]
ZodAnyValue == ZodValue("ZodAny", <<>>)
ZodNullValue == ZodValue("ZodNull", <<>>)
ZodUndefinedValue == ZodValue("ZodUndefined", <<>>)
ZodBooleanValue == ZodValue("ZodBoolean", <<>>)
ZodArrayValue(type) == ZodValue("ZodArray", <<Entry("type", type)>>)
ZodUnionValue(options) == ZodValue("ZodUnion", <<Entry("options", JArr(options))>>)
\* schema.nullable() and schema.optional()
ZodNullableValue(innerType) == ZodValue("ZodNullable", <<Entry("innerType", innerType)>>)
ZodOptionalValue(innerType) == ZodValue("ZodOptional", <<Entry("innerType", innerType)>>)
TypeNameOf(schema) == Get(Get(schema, "_def"), "typeName").v
\* schema._def.shape()
ShapeOf(schema) == Get(Get(schema, "_def"), "shape").v[2]

(***************************************************************************)
(* SchemaInferenceEngine                                                   *)
(***************************************************************************)
\* The strings of the samples, by the regular expression of
\* inferStringSchema that matches them; "https://a@b.co" matches two.
DatetimeLike == {"2024-01-01T00:00:00Z"}
UuidLike == {"123e4567-e89b-12d3-a456-426614174000"}
EmailLike == {"a@b.co", "https://a@b.co"}
UrlLike == {"https://x.io", "https://a@b.co"}

inferStringSchema(value) ==
  IF value \in DatetimeLike THEN ZodStringValue(<<"datetime">>)
  ELSE IF value \in UuidLike THEN ZodStringValue(<<"uuid">>)
  ELSE IF value \in EmailLike THEN ZodStringValue(<<"email">>)
  ELSE IF value \in UrlLike THEN ZodStringValue(<<"url">>)
  ELSE ZodStringValue(<<>>)

getSchemaKey(schema) ==
  LET typeName == TypeNameOf(schema) IN
  CASE typeName = "ZodString" -> "string"
    [] typeName = "ZodNumber" -> "number"
    [] typeName = "ZodBoolean" -> "boolean"
    [] typeName = "ZodNull" -> "null"
    [] typeName = "ZodUndefined" -> "undefined"
    [] typeName = "ZodArray" -> "array"
    [] typeName = "ZodObject" -> "object"
    [] OTHER -> "any"

\* the elements of seq at the indexes of keep, in order
RECURSIVE SubSeqAt(_, _, _)
SubSeqAt(seq, keep, i) ==
  IF i > Len(seq) THEN <<>>
  ELSE (IF i \in keep THEN <<seq[i]>> ELSE <<>>) \o SubSeqAt(seq, keep, i + 1)

\* the schemas whose key no earlier schema has
getUniqueSchemas(schemas) ==
  SubSeqAt(schemas,
           {i \in 1..Len(schemas) :
              \A j \in 1..(i - 1) : getSchemaKey(schemas[j]) # getSchemaKey(schemas[i])},
           1)

\* Math.random: the run's source of random numbers is a sequence of draws
\* read in a cycle; the draw d is the number d / Grain of [0, 1).
\* MaxLen bounds the length of the arrays that are inferred.
MaxLen == 2
Grain == MaxLen
Random(draws) == [draws |-> draws, at |-> 1]
\* Math.floor(Math.random() * length)
RandomIndex(rnd, length) == (rnd.draws[rnd.at] * length) \div Grain
Drawn(rnd) == [rnd EXCEPT !.at = (rnd.at % Len(rnd.draws)) + 1]

\* arr.slice(from, to), from and to counted from 0
Slice(arr, from, to) ==
  LET n == IF to > Len(arr) THEN Len(arr) ELSE to IN
  IF from >= n THEN <<>> ELSE [i \in 1..(n - from) |-> arr[from + i]]

\* the item count 1000 of the stratified strategy
StratifiedHead == 1000
Min(a, b) == IF a <= b THEN a ELSE b

\* the loop of the strategy random
RECURSIVE RandomSamples(_, _, _, _, _)
RandomSamples(arr, sampleSize, samples, indices, rnd) ==
  IF Len(samples) >= sampleSize THEN [samples |-> samples, rnd |-> rnd]
  ELSE LET index == RandomIndex(rnd, Len(arr)) IN
       IF index \notin indices
       THEN RandomSamples(arr, sampleSize, Append(samples, arr[index + 1]),
                          indices \cup {index}, Drawn(rnd))
       ELSE RandomSamples(arr, sampleSize, samples, indices, Drawn(rnd))

\* getSamples returns the samples and the random source as it leaves it
RECURSIVE getSamples(_, _, _)
getSamples(this, arr, rnd) ==
  LET sampleSize == this.options.sampleSize
      sampleStrategy == this.options.sampleStrategy IN
  IF Len(arr) <= sampleSize THEN [samples |-> arr, rnd |-> rnd]
  ELSE IF sampleStrategy = "first" THEN
    [samples |-> Slice(arr, 0, sampleSize), rnd |-> rnd]
  ELSE IF sampleStrategy = "random" THEN
    RandomSamples(arr, sampleSize, <<>>, {}, rnd)
  ELSE IF sampleStrategy = "stratified" THEN
    LET firstSamples == Slice(arr, 0, Min(StratifiedHead, sampleSize))
        remainingSize == sampleSize - Len(firstSamples)
        randomSamples == getSamples(this, Slice(arr, StratifiedHead, Len(arr)), rnd)
    IN [samples |-> firstSamples \o Slice(randomSamples.samples, 0, remainingSize),
        rnd |-> randomSamples.rnd]
  ELSE [samples |-> Slice(arr, 0, sampleSize), rnd |-> rnd]

\* what an inference returns: the schema, and the random source as it leaves it
Inferred(schema, rnd) == [schema |-> schema, rnd |-> rnd]

\* inferArraySchema, given the schemas inferred for the samples of arr
inferArraySchema(this, arr, schemas) ==
  LET uniqueSchemas == getUniqueSchemas(schemas) IN
  IF Len(arr) = 0 THEN ZodArrayValue(ZodAnyValue)
  ELSE IF Len(uniqueSchemas) = 1 THEN ZodArrayValue(uniqueSchemas[1])
  ELSE ZodArrayValue(ZodUnionValue(uniqueSchemas))

\* inferObjectSchema, given the schemas inferred for the values of obj's entries
inferObjectSchema(this, obj, schemas) ==
  LET shape == [i \in 1..Len(obj) |->
                  Entry(obj[i].k,
                        IF this.options.mode = "strict" /\ obj[i].x.t = "null"
                        THEN ZodNullableValue(schemas[i])
                        ELSE schemas[i])]
  IN ZodObjectValue(JObj(shape), this.inst)

\* The values from which the schema of an array or an object is built: the
\* samples of the array, the values of the object's entries
Parts(this, value, rnd) ==
  IF value.t = "array" /\ Len(value.v) > 0 THEN getSamples(this, value.v, rnd)
  ELSE IF value.t = "object"
    THEN [samples |-> [i \in 1..Len(value.v) |-> value.v[i].x], rnd |-> rnd]
    ELSE [samples |-> <<>>, rnd |-> rnd]

RECURSIVE inferFromValue(_, _, _, _), InferEach(_, _, _, _)

\* items.map(item => this.inferFromValue(item, depth)), from left to right
InferEach(this, items, depth, rnd) ==
  IF items = <<>> THEN [schemas |-> <<>>, rnd |-> rnd]
  ELSE LET first == inferFromValue(this, Head(items), depth, rnd)
           rest == InferEach(this, Tail(items), depth, first.rnd)
       IN [schemas |-> <<first.schema>> \o rest.schemas, rnd |-> rest.rnd]

inferFromValue(this, value, depth, rnd) ==
  IF depth > this.options.maxDepth THEN Inferred(ZodAnyValue, rnd)
  ELSE IF value.t = "null" THEN Inferred(ZodNullValue, rnd)
  ELSE IF value.t = "undefined" THEN Inferred(ZodUndefinedValue, rnd)
  ELSE IF value.t = "string" THEN Inferred(inferStringSchema(value.v), rnd)
  ELSE IF value.t = "number" THEN Inferred(ZodNumberValue, rnd)
  ELSE IF value.t = "boolean" THEN Inferred(ZodBooleanValue, rnd)
  ELSE IF value.t \in {"array", "object"} THEN
    LET parts == Parts(this, value, rnd)
        each == InferEach(this, parts.samples, depth + 1, parts.rnd)
    IN Inferred(IF value.t = "array"
                THEN inferArraySchema(this, value.v, each.schemas)
                ELSE inferObjectSchema(this, value.v, each.schemas),
                each.rnd)
  ELSE Inferred(ZodAnyValue, rnd)

\* item?.[key] of a row
RowGet(item, key) == IF item.t = "object" THEN Get(item, key) ELSE Undefined

\* the keys of the rows, in the order in which the rows first have them
AllKeys(arr) ==
  LET keys == Flatten([i \in 1..Len(arr) |->
                         IF arr[i].t = "object" THEN Keys(arr[i]) ELSE <<>>])
  IN SubSeqAt(keys, {i \in 1..Len(keys) : \A j \in 1..(i - 1) : keys[j] # keys[i]}, 1)

\* arr.map(item => item?.[key]).filter(v => v !== undefined)
ColumnValues(arr, key) ==
  SelectSeq([i \in 1..Len(arr) |-> RowGet(arr[i], key)], LAMBDA v : v.t # "undefined")

\* The schema of the column key of the rows arr. The cells of a row are
\* scalars, whose inference draws no random number.
ColumnSchema(this, arr, key, rnd) ==
  LET values == ColumnValues(arr, key)
      nullCount == Cardinality({i \in 1..Len(arr) : RowGet(arr[i], key).t = "null"})
      keyOccurrences == Cardinality({i \in 1..Len(arr) :
                                       arr[i].t = "object" /\ HasKey(arr[i], key)})
      missingCount == Len(arr) - keyOccurrences
      valueSchemas == [i \in 1..Len(values) |-> inferFromValue(this, values[i], 0, rnd).schema]
      uniqueSchemas == getUniqueSchemas(valueSchemas)
      schema == IF Len(uniqueSchemas) = 1 THEN uniqueSchemas[1]
                ELSE ZodUnionValue(uniqueSchemas)
      \* nullCount / arr.length > 0.05
      nullable ==
        IF \/ this.options.mode = "strict" /\ nullCount > 0
           \/ this.options.mode = "auto" /\ nullCount * 100 > 5 * Len(arr)
        THEN ZodNullableValue(schema) ELSE schema
  IN IF missingCount > 0 THEN ZodOptionalValue(nullable) ELSE nullable

inferFromArray(this, arr, rnd) ==
  IF Len(arr) = 0 THEN Inferred(ZodArrayValue(ZodAnyValue), rnd)
  ELSE LET keys == SelectSeq(AllKeys(arr), LAMBDA key : Len(ColumnValues(arr, key)) > 0)
           shape == [i \in 1..Len(keys) |->
                       Entry(keys[i], ColumnSchema(this, arr, keys[i], rnd))]
       IN Inferred(ZodArrayValue(ZodObjectValue(JObj(shape), this.inst)), rnd)

\* inferCsvSchema, from the rows that Papa.parse gives
inferCsvSchema(this, data, rnd) ==
  LET sampled == getSamples(this, data, rnd)
  IN inferFromArray(this, sampled.samples, sampled.rnd)

(***************************************************************************)
(* The exports the validation runs are given: two states of one export.    *)
(***************************************************************************)
\* the schema inferred for a JSON file holding one record {id: 1}
RecordSchema(inst) == ZodObjectValue(JObj(<<Entry("id", ZodNumberValue)>>), inst)

Snaps(inst) ==
  << Snapshot(Dir("export", <<File("notes.txt", 1)>>), JObj(<<>>)),
     Snapshot(Dir("export", <<File("notes.txt", 1), File("users.json", 1)>>),
              JObj(<<Entry("users", RecordSchema(inst))>>)) >>
NSnaps == Len(Snaps(0))
\* the names of all schemas of these exports
SchemaNames == UNION {KeySet(Snaps(0)[i].schemas) : i \in 1..NSnaps}

(***************************************************************************)
(* VersionManager and ExportValidator.validate                             *)
(***************************************************************************)
\* bounds of the model: the number of validation runs of one behaviour, when
\* the runs follow one another (MaxRuns), when writes may fail and runs may
\* be abandoned (MaxFaultRuns, and MaxFaults such events), and when two runs
\* may overlap (MaxConcRuns)
MaxRuns == 4
MaxFaultRuns == 2
MaxFaults == 1
MaxConcRuns == 2

Procs == {1, 2}
NoVersion == <<>>
InitialVersion == <<1, 0, 0>>

\* (an increment that leaves the lower components as they were)
incWithoutReset(version, release) ==
  CASE release = "major" -> <<version[1] + 1, version[2], version[3]>>
    [] release = "minor" -> <<version[1], version[2] + 1, version[3]>>
    [] release = "patch" -> <<version[1], version[2], version[3] + 1>>
    [] OTHER -> NoVersion

\* semver.inc(version, release); null (NoVersion) for an unknown release type
inc(version, release) ==
  CASE release = "major" -> <<version[1] + 1, 0, 0>>
    [] release = "minor" -> <<version[1], version[2] + 1, 0>>
    [] release = "patch" -> <<version[1], version[2], version[3] + 1>>
    [] OTHER -> NoVersion

\* semver.gt(a, b)
gt(a, b) ==
  \/ a[1] > b[1]
  \/ a[1] = b[1] /\ a[2] > b[2]
  \/ a[1] = b[1] /\ a[2] = b[2] /\ a[3] > b[3]

\* sha256 over the structure and the sorted schema names
calculateHash(snapshot) ==
  [structure |-> snapshot.structure, schemas |-> KeySet(snapshot.schemas)]

\* A file: st is "none" (absent), "ok" (holds val, written by the run of
\* process `by`) or "trunc" (left empty or partial by a write that failed
\* after opening it); written records that some write of it has completed.
NoFile == [st |-> "none", val |-> <<>>, by |-> 0, written |-> FALSE]
OkFile(val, by) == [st |-> "ok", val |-> val, by |-> by, written |-> TRUE]
TruncFile(old) == [st |-> "trunc", val |-> <<>>, by |-> 0, written |-> old.written]

\* fs.writeFile opens with flag 'w' (create or truncate) and then writes:
\* a write that fails leaves the file as it was (the open failed) or
\* truncated (the open succeeded, the write did not complete).
FailedWrite(old, opened) == IF opened THEN TruncFile(old) ELSE old

\* versions.json holds the manifest {versions, latest}
Manifest(versions, latest) == [versions |-> versions, latest |-> latest]
EmptyManifest == Manifest(<<>>, NoVersion)

\* A version directory v<version>
EmptyDir ==
  [metadata |-> NoFile, structure |-> NoFile, snapshot |-> NoFile,
   schemasDir |-> FALSE, schemas |-> [n \in SchemaNames |-> NoFile], changes |-> NoFile]

\* The inputs of a run: the export it validates (an index of Snaps) and its
\* --snapshot option: absent, a readable snapshot file, an unreadable one
RunInputs ==
  {<<i, "absent">> : i \in 1..NSnaps} \cup {<<1, "readable">>, <<1, "unreadable">>}
\* The options --ci and --fail-on of a run; failOn "none" when it is not given
CIOptions ==
  {[ci |-> FALSE, failOn |-> "breaking"], [ci |-> TRUE, failOn |-> "none"]}
    \cup {[ci |-> TRUE, failOn |-> t] : t \in {"breaking", "minor", "patch"}}
\* The option --format of a run: its default, or no report format
DefaultFormats == {"markdown", "json"}
RunOptions ==
  {[ci |-> o.ci, failOn |-> o.failOn, format |-> DefaultFormats] : o \in CIOptions}
    \cup {[ci |-> FALSE, failOn |-> "none", format |-> {}]}
\* the snapshot a readable --snapshot file holds
GivenSnapshot == Snaps(0)[2]

NoMetadata ==
  [version |-> NoVersion, previousVersion |-> NoVersion, changeType |-> "",
   breaking |-> FALSE, exportHash |-> <<>>]

\* The locals of a validation run
IdleRun ==
  [snap |-> 0, snapshotOption |-> "absent", ci |-> FALSE, failOn |-> "none", format |-> {},
   latestVersion |-> NoVersion,
   hasPrevious |-> FALSE, severities |-> {}, changeTypeArg |-> "",
   manifest |-> EmptyManifest, metadata |-> NoMetadata, k |-> 0]

\* How a run ended: "ok" (validate returned), "error" (it threw), "exit"
\* (process.exit(1) of the CI gate), "abandoned"
NoResult == "none"

VARIABLES
  manifestFile,   \* the file versions.json
  versionDirs,    \* version |-> its directory, for the directories that exist
  latestLink,     \* the target of the symlink latest, NoVersion when there is none
  pc,             \* where each run is
  run,            \* the locals of each run
  result,         \* how each process's last run ended
  runs,           \* the number of runs started
  faultsLeft,     \* how many more writes may fail or runs be abandoned
  given,          \* the arguments of the operation applied (SpecDiff, SpecInfer)
  returned        \* what it returned: [done, value]

vars == <<manifestFile, versionDirs, latestLink, pc, run, result, runs, faultsLeft,
          given, returned>>

NotReturned == [done |-> FALSE, value |-> <<>>]
Returned(value) == [done |-> TRUE, value |-> value]

\* the state of the version store before any run
InitStore ==
  /\ manifestFile = NoFile
  /\ versionDirs = <<>>
  /\ latestLink = NoVersion
  /\ pc = [p \in Procs |-> "idle"]
  /\ run = [p \in Procs |-> IdleRun]
  /\ result = [p \in Procs |-> NoResult]
  /\ runs = 0
storeVars == <<manifestFile, versionDirs, latestLink, pc, run, result, runs, faultsLeft>>

Init ==
  /\ InitStore
  /\ faultsLeft = 0
  /\ given = <<>>
  /\ returned = NotReturned

\* ---- helpers of the actions -------------------------------------------

\* The run of p ends: validate returns, throws, exits or is abandoned
Finish(p, outcome) ==
  /\ pc' = [pc EXCEPT ![p] = "idle"]
  /\ run' = [run EXCEPT ![p] = IdleRun]
  /\ result' = [result EXCEPT ![p] = outcome]
  /\ UNCHANGED <<given, returned>>

\* a write fails or the run is abandoned
Fault == faultsLeft > 0 /\ faultsLeft' = faultsLeft - 1

\* The run of p goes on with the step `label`
Goto(p, label) == pc' = [pc EXCEPT ![p] = label] /\ UNCHANGED <<given, returned>>

DirOf(version) == IF version \in DOMAIN versionDirs THEN versionDirs[version] ELSE EmptyDir

\* fs.readFile + JSON.parse of versions.json succeeds
ManifestReadable == manifestFile.st = "ok"

\* The snapshot under validation of run p
CurrentSnapshot(p) == Snaps(p)[run[p].snap]

\* The previous snapshot loadPreviousSnapshot returns, <<>> for null
PreviousSnapshot(p) ==
  IF run[p].snapshotOption = "readable" THEN <<LoadedSnapshot(GivenSnapshot)>>
  ELSE IF run[p].snapshotOption = "unreadable" THEN <<>>
  ELSE LET file == DirOf(run[p].latestVersion).snapshot
       IN IF file.st = "ok" THEN <<LoadedSnapshot(Snaps(file.by)[file.val])>> ELSE <<>>

\* The version createVersion assigns after a manifest whose latest is previousVersion
NewVersion(previousVersion, changeType) ==
  IF previousVersion = NoVersion THEN InitialVersion
  ELSE IF inc(previousVersion, changeType) # NoVersion
    THEN inc(previousVersion, changeType)
    ELSE InitialVersion

\* (a createVersion that keeps the changeType it was passed)
RecordedChangeTypeAsPassed(previousVersion, changeType) == changeType

\* The changeType createVersion records
RecordedChangeType(previousVersion, changeType) ==
  IF previousVersion = NoVersion THEN "initial" ELSE changeType

\* The metadata createVersion builds (lines 129-149)
NewMetadata(manifest, changeTypeArg, snapshot) ==
  LET changeType == RecordedChangeType(manifest.latest, changeTypeArg)
  IN [version |-> NewVersion(manifest.latest, changeTypeArg),
      previousVersion |-> manifest.latest,
      changeType |-> changeType,
      breaking |-> (changeType = "major"),
      exportHash |-> calculateHash(snapshot)]

\* The order of the steps of createVersion (lines 129-164)
CreateVersionOrderPublishFirst ==
  <<"readManifest", "saveManifest", "mkdirVersion", "writeMetadata", "writeStructure",
    "writeSnapshot", "mkdirSchemas", "writeSchema", "updateLink">>
CreateVersionOrder ==
  <<"readManifest", "mkdirVersion", "writeMetadata", "writeStructure", "writeSnapshot",
    "mkdirSchemas", "writeSchema", "saveManifest", "updateLink">>
CreateVersionStages == {CreateVersionOrder[i] : i \in 1..Len(CreateVersionOrder)}

\* The step of createVersion after the step `label`; the loop over the schema
\* files is skipped when the snapshot has no schema left to write
StageAfter(label, schemasLeft) ==
  LET i == CHOOSE n \in 1..Len(CreateVersionOrder) : CreateVersionOrder[n] = label
      next == CreateVersionOrder[i + 1]
  IN IF label = "writeSchema" /\ schemasLeft THEN "writeSchema"
     ELSE IF next = "writeSchema" /\ ~schemasLeft THEN CreateVersionOrder[i + 2]
     ELSE next

\* ---- validate ----------------------------------------------------------

\* severityLevels of shouldFailCI
SeverityLevel(severity) ==
  CASE severity = "breaking" -> 3
    [] severity = "minor" -> 2
    [] severity = "patch" -> 1

\* A validation run starts on one of the exports, with or without --snapshot
Start(p, max) ==
  /\ pc[p] = "idle"
  /\ runs < max
  /\ runs' = runs + 1
  /\ \E in \in RunInputs, o \in RunOptions :
       run' = [run EXCEPT ![p] = [IdleRun EXCEPT !.snap = in[1], !.snapshotOption = in[2],
                                                 !.ci = o.ci, !.failOn = o.failOn,
                                                 !.format = o.format]]
  /\ Goto(p, "initialize")
  /\ result' = [result EXCEPT ![p] = NoResult]
  /\ UNCHANGED <<manifestFile, versionDirs, latestLink, faultsLeft>>

\* (an initialize that writes the empty manifest whenever versions.json
\* cannot be read)
InitializeWhenUnreadable(p) ==
  /\ pc[p] = "initialize"
  /\ IF ~ManifestReadable THEN Goto(p, "initWrite")
     ELSE IF run[p].snapshotOption = "absent" THEN Goto(p, "getLatest")
     ELSE Goto(p, "loadSnapshot")
  /\ UNCHANGED <<manifestFile, versionDirs, latestLink, run, result, runs, faultsLeft>>

\* initialize: fs.access(versionsFile)
Initialize(p) ==
  /\ pc[p] = "initialize"
  /\ IF manifestFile.st = "none" THEN Goto(p, "initWrite")
     ELSE IF run[p].snapshotOption = "absent" THEN Goto(p, "getLatest")
     ELSE Goto(p, "loadSnapshot")
  /\ UNCHANGED <<manifestFile, versionDirs, latestLink, run, result, runs, faultsLeft>>

\* initialize: versions.json was not accessible, write the empty manifest
InitWrite(p) ==
  /\ pc[p] = "initWrite"
  /\ \/ /\ manifestFile' = OkFile(EmptyManifest, p)
        /\ IF run[p].snapshotOption = "absent" THEN Goto(p, "getLatest")
           ELSE Goto(p, "loadSnapshot")
        /\ UNCHANGED <<run, result, runs, faultsLeft>>
     \/ /\ \E opened \in BOOLEAN : manifestFile' = FailedWrite(manifestFile, opened)
        /\ Finish(p, "error")
        /\ Fault
        /\ UNCHANGED runs
  /\ UNCHANGED <<versionDirs, latestLink>>

\* loadPreviousSnapshot without --snapshot: getLatestVersion reads the manifest
GetLatest(p) ==
  /\ pc[p] = "getLatest"
  /\ IF ~ManifestReadable THEN Finish(p, "error")
     ELSE /\ run' = [run EXCEPT ![p].latestVersion = manifestFile.val.latest]
          /\ Goto(p, "loadSnapshot")
          /\ UNCHANGED result
  /\ UNCHANGED <<manifestFile, versionDirs, latestLink, runs, faultsLeft>>

\* (a gate that fails only on a severity above the threshold)
shouldFailCIAbove(failOn, changes) ==
  /\ failOn # "none"
  /\ \E i \in 1..Len(changes) :
       SeverityLevel(changes[i].severity) > SeverityLevel(failOn)

shouldFailCI(failOn, changes) ==
  /\ failOn # "none"
  /\ \E i \in 1..Len(changes) :
       SeverityLevel(changes[i].severity) >= SeverityLevel(failOn)

\* the changes validate detects against the previous snapshot of run p
DetectedChanges(p) ==
  IF PreviousSnapshot(p) = <<>> THEN <<>>
  ELSE detectChanges(CurrentSnapshot(p), PreviousSnapshot(p)[1])

\* if (this.options.ci && this.options.failOn) with shouldFailCI(changes)
CIGateFails(p) ==
  /\ PreviousSnapshot(p) # <<>>
  /\ run[p].ci
  /\ run[p].failOn # "none"
  /\ shouldFailCI(run[p].failOn, DetectedChanges(p))

\* loadPreviousSnapshot reads the snapshot file (null when there is no latest
\* version or the file cannot be read or parsed); validate then detects the
\* changes, exits when the CI gate fails, and else chooses the changeType it
\* passes to createVersion
LoadSnapshot(p) ==
  /\ pc[p] = "loadSnapshot"
  /\ IF CIGateFails(p) THEN Finish(p, "exit")
     ELSE /\ LET previous == PreviousSnapshot(p)
                 changes == DetectedChanges(p)
             IN run' = [run EXCEPT
                          ![p].hasPrevious = (previous # <<>>),
                          ![p].severities = {changes[i].severity : i \in 1..Len(changes)},
                          ![p].changeTypeArg = IF previous = <<>> THEN "initial"
                                               ELSE calculateSeverity(changes)]
          /\ Goto(p, "readManifest")
          /\ UNCHANGED result
  /\ UNCHANGED <<manifestFile, versionDirs, latestLink, runs, faultsLeft>>

\* ---- createVersion -----------------------------------------------------

\* lines 129-149: read the manifest, choose the version, build the metadata
ReadManifest(p) ==
  /\ pc[p] = "readManifest"
  /\ IF ~ManifestReadable
     THEN Finish(p, "error")
     ELSE /\ run' = [run EXCEPT
                       ![p].manifest = manifestFile.val,
                       ![p].metadata = NewMetadata(manifestFile.val, run[p].changeTypeArg,
                                                   CurrentSnapshot(p))]
          /\ Goto(p, StageAfter("readManifest", TRUE))
          /\ UNCHANGED result
  /\ UNCHANGED <<manifestFile, versionDirs, latestLink, runs, faultsLeft>>

\* The directory of the version run p is creating
VersionDir(p) == DirOf(run[p].metadata.version)
SetVersionDir(p, dir) ==
  versionDirs' = [v \in DOMAIN versionDirs \cup {run[p].metadata.version} |->
                    IF v = run[p].metadata.version THEN dir ELSE versionDirs[v]]

\* line 153: fs.mkdir(versionDir, {recursive: true})
MkdirVersion(p) ==
  /\ pc[p] = "mkdirVersion"
  /\ \/ /\ SetVersionDir(p, VersionDir(p))
        /\ Goto(p, StageAfter("mkdirVersion", TRUE))
        /\ UNCHANGED <<run, result, runs, faultsLeft>>
     \/ /\ Finish(p, "error")
        /\ Fault
        /\ UNCHANGED runs
        /\ UNCHANGED versionDirs
  /\ UNCHANGED <<manifestFile, latestLink>>

\* saveVersionData: one fs.writeFile of a file of the version directory
WriteVersionFile(p, label, file, val) ==
  /\ pc[p] = label
  /\ \/ /\ SetVersionDir(p, [VersionDir(p) EXCEPT ![file] = OkFile(val, p)])
        /\ Goto(p, StageAfter(label, TRUE))
        /\ UNCHANGED <<run, result, runs, faultsLeft>>
     \/ /\ \E opened \in BOOLEAN :
             SetVersionDir(p, [VersionDir(p) EXCEPT
                                 ![file] = FailedWrite(VersionDir(p)[file], opened)])
        /\ Finish(p, "error")
        /\ Fault
        /\ UNCHANGED runs
  /\ UNCHANGED <<manifestFile, latestLink>>

WriteMetadata(p) ==
  WriteVersionFile(p, "writeMetadata", "metadata", run[p].metadata)

WriteStructure(p) ==
  WriteVersionFile(p, "writeStructure", "structure", run[p].snap)

WriteSnapshot(p) ==
  WriteVersionFile(p, "writeSnapshot", "snapshot", run[p].snap)

\* the schema names of the run's snapshot, in Object.entries order
SchemasToWrite(p) == Keys(CurrentSnapshot(p).schemas)

\* line 228: fs.mkdir(schemasDir, {recursive: true})
MkdirSchemas(p) ==
  /\ pc[p] = "mkdirSchemas"
  /\ \/ /\ SetVersionDir(p, [VersionDir(p) EXCEPT !.schemasDir = TRUE])
        /\ run' = [run EXCEPT ![p].k = 1]
        /\ Goto(p, StageAfter("mkdirSchemas", SchemasToWrite(p) # <<>>))
        /\ UNCHANGED <<result, runs, faultsLeft>>
     \/ /\ Finish(p, "error")
        /\ Fault
        /\ UNCHANGED runs
        /\ UNCHANGED versionDirs
  /\ UNCHANGED <<manifestFile, latestLink>>

\* lines 231-234: the k-th <name>.schema.json
WriteSchema(p) ==
  /\ pc[p] = "writeSchema"
  /\ LET name == SchemasToWrite(p)[run[p].k]
         last == run[p].k = Len(SchemasToWrite(p))
     IN \/ /\ SetVersionDir(p, [VersionDir(p) EXCEPT !.schemas[name] = OkFile(run[p].snap, p)])
           /\ run' = [run EXCEPT ![p].k = run[p].k + 1]
           /\ Goto(p, StageAfter("writeSchema", ~last))
           /\ UNCHANGED <<result, runs, faultsLeft>>
        \/ /\ \E opened \in BOOLEAN :
                SetVersionDir(p, [VersionDir(p) EXCEPT
                                    !.schemas[name] = FailedWrite(VersionDir(p).schemas[name], opened)])
           /\ Finish(p, "error")
           /\ Fault
           /\ UNCHANGED runs
  /\ UNCHANGED <<manifestFile, latestLink>>

\* lines 159-161: push the metadata, set latest, saveVersionManifest
\* (a saveVersionManifest that keeps the latest it read)
saveVersionManifestKeepLatest(p, manifest) ==
  manifestFile' = OkFile(Manifest(manifest.versions, run[p].manifest.latest), p)

saveVersionManifest(p, manifest) == manifestFile' = OkFile(manifest, p)

SaveManifest(p) ==
  /\ pc[p] = "saveManifest"
  /\ \/ /\ saveVersionManifest(p, Manifest(Append(run[p].manifest.versions, run[p].metadata),
                                           run[p].metadata.version))
        /\ Goto(p, StageAfter("saveManifest", SchemasToWrite(p) # <<>>))
        /\ UNCHANGED <<run, result, runs, faultsLeft>>
     \/ /\ \E opened \in BOOLEAN : manifestFile' = FailedWrite(manifestFile, opened)
        /\ Finish(p, "error")
        /\ Fault
        /\ UNCHANGED runs
  /\ UNCHANGED <<versionDirs, latestLink>>

\* updateLatestLink: unlink and symlink, both failures swallowed; then
\* createVersion returns the metadata
UpdateLink(p) ==
  /\ pc[p] = "updateLink"
  /\ \/ latestLink' = run[p].metadata.version /\ UNCHANGED faultsLeft
     \/ latestLink' \in {NoVersion, latestLink} /\ Fault
  /\ Goto(p, "generateReports")
  /\ UNCHANGED <<manifestFile, versionDirs, run, result, runs>>

\* generateReports: with a change report (a previous snapshot existed) each
\* selected reporter writes its file with fs.writeFile into
\* path.join(options.output, 'v' + version).  The version directory is
\* path.join(options.output, exportType.outputName, 'v' + version), and no
\* outputName is empty: the reporters' directory is never made, the first
\* write fails with ENOENT and validate throws.
GenerateReports(p) ==
  /\ pc[p] = "generateReports"
  /\ IF run[p].hasPrevious /\ run[p].format # {}
       THEN Finish(p, "error")
       ELSE Goto(p, "generateSchemas") /\ UNCHANGED <<run, result>>
  /\ UNCHANGED <<manifestFile, versionDirs, latestLink, runs, faultsLeft>>

\* generateZodSchemas and generateJsonSchemas write the generated sources
\* under the schemas directory of the version; then validate returns
GenerateSchemas(p) ==
  /\ pc[p] = "generateSchemas"
  /\ \/ Finish(p, "ok") /\ UNCHANGED faultsLeft
     \/ Finish(p, "error") /\ Fault
  /\ UNCHANGED <<manifestFile, versionDirs, latestLink, runs>>

\* A caller-level timeout or kill abandons the run between two steps
Abandon(p) ==
  /\ pc[p] # "idle"
  /\ Finish(p, "abandoned")
  /\ Fault
  /\ UNCHANGED runs
  /\ UNCHANGED <<manifestFile, versionDirs, latestLink>>

\* The steps of a run that meets no failure of its own making
Run(p, max) ==
  \/ Start(p, max)
  \/ Initialize(p)
  \/ InitWrite(p)
  \/ GetLatest(p)
  \/ LoadSnapshot(p)
  \/ ReadManifest(p)
  \/ MkdirVersion(p)
  \/ WriteMetadata(p)
  \/ WriteStructure(p)
  \/ WriteSnapshot(p)
  \/ MkdirSchemas(p)
  \/ WriteSchema(p)
  \/ SaveManifest(p)
  \/ UpdateLink(p)
  \/ GenerateReports(p)
  \/ GenerateSchemas(p)

\* One writer: the validation runs of an export follow one another
Next == Run(1, MaxRuns)
Spec == Init /\ [][Next]_vars

\* One writer; up to MaxFaults writes fail or runs are abandoned
InitFaults ==
  /\ InitStore
  /\ faultsLeft = MaxFaults
  /\ given = <<>>
  /\ returned = NotReturned
NextFaults == Run(1, MaxFaultRuns) \/ Abandon(1)
SpecFaults == InitFaults /\ [][NextFaults]_vars

\* Two validation runs on the same export may overlap
NextConc == \E p \in Procs : Run(p, MaxConcRuns)
SpecConc == Init /\ [][NextConc]_vars

(***************************************************************************)
(* The read operations of VersionManager, called on the store the runs     *)
(* leave (also between the steps of a run, and after a failed write)       *)
(***************************************************************************)
\* What a read operation gave its caller: a value, or a thrown error
Value(op, args, value) == Returned([op |-> op, args |-> args, error |-> FALSE, value |-> value])
Thrown(op, args) == Returned([op |-> op, args |-> args, error |-> TRUE, value |-> <<>>])

\* getLatestVersion: readVersionManifest throws when versions.json is
\* missing or cannot be parsed
getLatestVersion ==
  IF ManifestReadable THEN Value("getLatestVersion", <<>>, manifestFile.val.latest)
  ELSE Thrown("getLatestVersion", <<>>)

\* manifest.versions.find(v => v.version === version): <<>> for undefined
Find(versions, version) ==
  LET found == SelectSeq(versions, LAMBDA v : v.version = version)
  IN IF found = <<>> THEN <<>> ELSE <<found[1]>>

getVersion(version) ==
  IF ManifestReadable THEN Value("getVersion", <<version>>, Find(manifestFile.val.versions, version))
  ELSE Thrown("getVersion", <<version>>)

\* seq without its i-th element
Without(seq, i) == [k \in 1..(Len(seq) - 1) |-> IF k < i THEN seq[k] ELSE seq[k + 1]]

\* [...versions].sort((a, b) => semver.rcompare(a.version, b.version)): a
\* stable sort, greatest version first
RECURSIVE SortDescending(_)
SortDescending(versions) ==
  IF versions = <<>> THEN <<>>
  ELSE LET i == CHOOSE n \in 1..Len(versions) :
                  /\ \A j \in 1..Len(versions) : ~gt(versions[j].version, versions[n].version)
                  /\ \A j \in 1..(n - 1) : gt(versions[n].version, versions[j].version)
       IN <<versions[i]>> \o SortDescending(Without(versions, i))

\* getVersionHistory() is called without a limit
NoLimit == -1
\* the largest limit getVersionHistory is called with
MaxLimit == 2
Limits == {NoLimit} \cup (0..MaxLimit)

\* versions.slice(0, limit) for limit >= 0
Slice0(versions, limit) == SubSeq(versions, 1, IF limit < Len(versions) THEN limit ELSE Len(versions))

\* limit ? versions.slice(0, limit) : versions
Limited(versions, limit) ==
  IF limit # NoLimit /\ limit # 0 THEN Slice0(versions, limit) ELSE versions

getVersionHistory(limit) ==
  IF ManifestReadable
    THEN Value("getVersionHistory", <<limit>>, Limited(SortDescending(manifestFile.val.versions), limit))
    ELSE Thrown("getVersionHistory", <<limit>>)

\* loadSnapshot(versionDir): <<>> when structure.snapshot.json cannot be read
\* or parsed (the call throws)
loadSnapshot(version) ==
  LET file == DirOf(version).snapshot
  IN IF file.st = "ok" THEN <<LoadedSnapshot(Snaps(file.by)[file.val])>> ELSE <<>>

\* (a comparison that gives the snapshot of toVersion twice)
compareVersionsToTwice(fromVersion, toVersion) ==
  IF loadSnapshot(fromVersion) = <<>> \/ loadSnapshot(toVersion) = <<>>
    THEN Thrown("compareVersions", <<fromVersion, toVersion>>)
    ELSE Value("compareVersions", <<fromVersion, toVersion>>,
               <<[from |-> fromVersion, to |-> toVersion,
                  fromSnapshot |-> loadSnapshot(toVersion)[1],
                  toSnapshot |-> loadSnapshot(toVersion)[1]]>>)

compareVersions(fromVersion, toVersion) ==
  IF loadSnapshot(fromVersion) = <<>> \/ loadSnapshot(toVersion) = <<>>
    THEN Thrown("compareVersions", <<fromVersion, toVersion>>)
    ELSE Value("compareVersions", <<fromVersion, toVersion>>,
               <<[from |-> fromVersion, to |-> toVersion,
                  fromSnapshot |-> loadSnapshot(fromVersion)[1],
                  toSnapshot |-> loadSnapshot(toVersion)[1]]>>)

\* The versions the read operations are asked for: those that have a
\* directory and the initial version, which may not be there
AskedVersions == {InitialVersion} \cup DOMAIN versionDirs

\* A behaviour holds one read operation, at any point of the runs: the reads
\* change nothing but what they return, so a second one adds no state of the
\* store
GetLatestVersion ==
  /\ ~returned.done
  /\ returned' = getLatestVersion
  /\ UNCHANGED <<storeVars, given>>

GetVersion ==
  /\ ~returned.done
  /\ \E version \in AskedVersions : returned' = getVersion(version)
  /\ UNCHANGED <<storeVars, given>>

GetVersionHistory ==
  /\ ~returned.done
  /\ \E limit \in Limits : returned' = getVersionHistory(limit)
  /\ UNCHANGED <<storeVars, given>>

CompareVersions ==
  /\ ~returned.done
  /\ \E fromVersion \in AskedVersions, toVersion \in AskedVersions :
       returned' = compareVersions(fromVersion, toVersion)
  /\ UNCHANGED <<storeVars, given>>

NextStore ==
  \/ NextFaults
  \/ GetLatestVersion
  \/ GetVersion
  \/ GetVersionHistory
  \/ CompareVersions
SpecStore == InitFaults /\ [][NextStore]_vars

(***************************************************************************)
(* detectChanges applied to two snapshots drawn from a bounded universe    *)
(***************************************************************************)
\* the largest file size of the trees
MaxSize == 2

\* the entry "x" of the export directory: a file, or a directory of at most one file
SubNodes ==
  {File("x", n) : n \in 1..MaxSize}
    \cup {Dir("x", <<>>)} \cup {Dir("x", <<File("a", n)>>) : n \in 1..MaxSize}

Trees ==
  {Dir("export", <<>>), Dir("export", <<File("y", 1)>>)}
    \cup {Dir("export", <<x>>) : x \in SubNodes}
    \cup {Dir("export", <<x, File("y", 1)>>) : x \in SubNodes}
    \cup {Dir("export", <<File("y", 1), x>>) : x \in SubNodes}

\* Schemas of the name users: plain field maps (as a hand-written snapshot
\* file may hold them), Zod objects of two inference runs, a Zod object read
\* back from a snapshot file, Zod strings with and without a format check,
\* and a nullable Zod string
PlainSchema(fields) == JObj([i \in 1..Len(fields) |-> Entry(fields[i], JStr("string"))])
UserShape(fields) == JObj([i \in 1..Len(fields) |-> Entry(fields[i], ZodNumberValue)])
UserSchemas ==
  { PlainSchema(<<"id", "email">>), PlainSchema(<<"id">>),
    ZodObjectValue(UserShape(<<"id", "email">>), 1),
    ZodObjectValue(UserShape(<<"id">>), 1),
    ZodObjectValue(UserShape(<<"id", "email">>), 2),
    JsonRoundTrip(ZodObjectValue(UserShape(<<"id", "email">>), 1)),
    ZodStringValue(<<>>), ZodStringValue(<<"email">>),
    ZodNullableValue(ZodStringValue(<<>>)) }

SchemaMaps ==
  {JObj(<<>>)}
    \cup {JObj(<<Entry("users", u)>>) : u \in UserSchemas}
    \cup {JObj(<<Entry("users", PlainSchema(<<"id">>)), Entry("orders", ZodNumberValue)>>),
          JObj(<<Entry("orders", ZodNumberValue), Entry("users", PlainSchema(<<"id">>))>>)}

Snapshots == {Snapshot(t, m) : t \in Trees, m \in SchemaMaps}

InitDiff ==
  /\ InitStore
  /\ faultsLeft = 0
  /\ given \in {[current |-> c, previous |-> q] : c \in Snapshots, q \in Snapshots}
  /\ returned = NotReturned

DetectChanges ==
  /\ ~returned.done
  /\ returned' = Returned(detectChanges(given.current, given.previous))
  /\ UNCHANGED <<given, storeVars>>

NextDiff == DetectChanges
SpecDiff == InitDiff /\ [][NextDiff]_vars

(***************************************************************************)
(* Inference applied to parsed file contents drawn from a bounded universe *)
(***************************************************************************)
SampleStrings == {"hello"} \cup DatetimeLike \cup UuidLike \cup EmailLike \cup UrlLike
Scalars == {JNull, JNum(1), JBool(TRUE)} \cup {JStr(s) : s \in SampleStrings}

\* records, as elements of JSON arrays and as rows of CSV files
Rows ==
  { JObj(<<Entry("a", JNum(1))>>), JObj(<<Entry("a", JNull)>>),
    JObj(<<Entry("a", JStr("hello"))>>), JObj(<<Entry("a", JStr("a@b.co"))>>),
    JObj(<<Entry("a", JNum(1)), Entry("b", JStr("hello"))>>) }
Items == {JNull, JNum(1), JStr("hello"), JStr("a@b.co")} \cup Rows

SeqsUpTo(S, n) == UNION {[1..m -> S] : m \in 0..n}
JsonValues ==
  Scalars \cup Rows
    \cup {JArr(a) : a \in SeqsUpTo(Items, MaxLen)}
    \cup {JObj(<<Entry("items", JArr(a))>>) : a \in SeqsUpTo(Rows, 1)}
    \cup {JArr(<<JArr(a)>>) : a \in SeqsUpTo(Scalars, 1)}
\* twenty records of one field, the first `nulls` of them holding null
TwentyRecords(nulls) ==
  JArr([i \in 1..20 |-> JObj(<<Entry("a", IF i <= nulls THEN JNull ELSE JStr("a@b.co"))>>)])
CsvData ==
  {JArr(rows) : rows \in SeqsUpTo(Rows, MaxLen)} \cup {TwentyRecords(n) : n \in 0..2}
\* the sample size the command line gives by default
DefaultSampleSize == 1000
\* the --max-array-sample the command line gives by default, and the one of
\* the engines below
DefaultMaxArraySample == 100
MaxArraySample == 1

Engines ==
  {[options |-> [mode |-> m, sampleSize |-> n, sampleStrategy |-> s,
                 maxArraySample |-> MaxArraySample, maxDepth |-> d],
    inst |-> 1] :
     m \in {"strict", "loose", "auto"}, n \in (1..MaxLen) \cup {DefaultSampleSize},
     s \in {"first", "random", "stratified"}, d \in {0, MaxLen}}

\* the draws of the random source: each of 0..Grain-1 comes in every cycle,
\* so that the loop of the strategy random ends
Draws == {d \in [1..Grain -> 0..(Grain - 1)] : \A x \in 0..(Grain - 1) : \E i \in 1..Grain : d[i] = x}
DrawsFor(engine) ==
  IF engine.options.sampleStrategy = "random" THEN Draws
  ELSE {[i \in 1..Grain |-> i - 1]}

InitInfer ==
  /\ InitStore
  /\ faultsLeft = 0
  /\ \E format \in {"json", "csv"}, e \in Engines :
       \E v \in (IF format = "json" THEN JsonValues ELSE CsvData), d \in DrawsFor(e) :
         given = [format |-> format, data |-> v, this |-> e, rnd |-> Random(d)]
  /\ returned = NotReturned

\* inferJsonSchema on the parsed content of a file
InferJson ==
  /\ ~returned.done
  /\ given.format = "json"
  /\ returned' = Returned(inferFromValue(given.this, given.data, 0, given.rnd))
  /\ UNCHANGED <<given, storeVars>>

\* inferCsvSchema on the rows of a file
InferCsv ==
  /\ ~returned.done
  /\ given.format = "csv"
  /\ returned' = Returned(inferCsvSchema(given.this, given.data.v, given.rnd))
  /\ UNCHANGED <<given, storeVars>>

NextInfer == InferJson \/ InferCsv
SpecInfer == InitInfer /\ [][NextInfer]_vars

(***************************************************************************)
(* getSamples applied to arrays of bounded lengths.  The items of an array *)
(* are its positions 1..L, so that a sample tells the indices it took.     *)
(***************************************************************************)
Positions(length) == [i \in 1..length |-> i]

\* sample sizes below and above the head of the strategy stratified
SampleSizes == (1..MaxLen) \cup {StratifiedHead + k : k \in 1..MaxLen}
\* array lengths around the sample sizes, and one whose tail beyond the head
\* is itself longer than every sample size
SampleLengths ==
  (0..(MaxLen + 1)) \cup {StratifiedHead + k : k \in 0..(MaxLen + 1)}
    \cup {2 * StratifiedHead + MaxLen + 1}

\* The random source gives Grain different numbers, so the loop of the strategy
\* random ends only when it is asked for at most Grain indices
SampleInputs ==
  {in \in {"first", "random", "stratified"} \X SampleSizes \X SampleLengths :
     in[1] = "random" /\ in[3] > in[2] => in[2] <= Grain}

InitSample ==
  /\ InitStore
  /\ faultsLeft = 0
  /\ \E in \in SampleInputs, d \in Draws :
       given = [this |-> [options |-> [mode |-> "strict", sampleSize |-> in[2],
                                       sampleStrategy |-> in[1],
                                       maxArraySample |-> MaxArraySample, maxDepth |-> 0],
                          inst |-> 1],
                arr |-> Positions(in[3]),
                rnd |-> Random(d)]
  /\ returned = NotReturned

GetSamples ==
  /\ ~returned.done
  /\ returned' = Returned(getSamples(given.this, given.arr, given.rnd).samples)
  /\ UNCHANGED <<given, storeVars>>

NextSample == GetSamples
SpecSample == InitSample /\ [][NextSample]_vars

(***************************************************************************)
(* inferSchemas applied to export trees drawn from a bounded universe.     *)
(* A file or directory name is the sequence of its pieces, "." and "_"     *)
(* being pieces of their own ("a_b.json" is <<"a", "_", "b", ".", "json">>);*)
(* a path joins names with the piece "/".                                  *)
(***************************************************************************)
\* the number of entries of a directory of the trees
MaxFiles == 2

\* The parsed contents of the well-formed files, by index; the content 0 is
\* malformed: the parser of the file's format throws or reports an error
Contents ==
  << JArr(<<JObj(<<Entry("id", JNum(1))>>)>>),
     JArr(<<JObj(<<Entry("id", JStr("hello"))>>)>>) >>
Malformed == 0

\* A file of the export with its content
ExportFile(name, content) ==
  [name |-> name, type |-> "file", size |-> 1, children |-> <<>>, content |-> content]
ExportDir(name, children) ==
  [name |-> name, type |-> "directory", size |-> 0, children |-> children, content |-> 0]

\* path.join(basePath, name)
PathJoin(basePath, name) == IF basePath = <<>> THEN name ELSE basePath \o <<"/">> \o name

\* the index of the last "." of a name that has a piece after it, 0 if none
LastDot(pieces) ==
  LET dots == {i \in 1..(Len(pieces) - 1) : pieces[i] = "."}
  IN IF dots = {} THEN 0 ELSE CHOOSE i \in dots : \A j \in dots : j <= i

\* path.extname(filePath).toLowerCase() without its dot; filePath.split('.').pop()
ExtName(name) == IF LastDot(name) = 0 THEN "" ELSE name[Len(name)]

isStructuredFile(name) == ExtName(name) \in {"json", "csv", "xml", "yaml", "yml"}

\* (an inferFromFile that lets the parser's error through)
inferFromFileUncaught(this, node) ==
  IF node.content = Malformed THEN [threw |-> TRUE, schema |-> <<>>]
  ELSE [threw |-> FALSE, schema |-> <<ZodAnyValue>>]

\* inferFromFile: the schema in a one-element sequence, <<>> for null; the
\* try/catch turns every error of the parser into null
inferFromFile(this, node) ==
  LET ext == ExtName(node.name)
      rnd == Random([i \in 1..Grain |-> i - 1])
  IN IF node.content = Malformed THEN [threw |-> FALSE, schema |-> <<>>]
     ELSE IF ext \in {"json", "xml", "yaml", "yml"}
       THEN [threw |-> FALSE,
             schema |-> <<inferFromValue(this, Contents[node.content], 0, rnd).schema>>]
     ELSE IF ext = "csv"
       THEN [threw |-> FALSE,
             schema |-> <<inferCsvSchema(this, Contents[node.content].v, rnd).schema>>]
     ELSE [threw |-> FALSE, schema |-> <<>>]

\* cleanPath.replace(/\.[^.]+$/, '')
RemoveExtension(pieces) ==
  IF LastDot(pieces) = 0 THEN pieces ELSE SubSeq(pieces, 1, LastDot(pieces) - 1)

\* cleanPath.startsWith(rootName + path.sep)
StartsWithRoot(pieces, rootName) ==
  /\ Len(pieces) > Len(rootName)
  /\ SubSeq(pieces, 1, Len(rootName) + 1) = rootName \o <<"/">>

getSchemaName(name, basePath, rootName) ==
  LET relativePath == PathJoin(basePath, name)
      cleanPath == IF StartsWithRoot(relativePath, rootName)
                     THEN SubSeq(relativePath, Len(rootName) + 2, Len(relativePath))
                     ELSE relativePath
      stem == RemoveExtension(cleanPath)
  IN [i \in 1..Len(stem) |-> IF stem[i] = "/" THEN "_" ELSE stem[i]]

\* processNode: what inferFromFile gave for each structured file, in the
\* order of the walk: its path, its schema name, and the outcome
RECURSIVE processNode(_, _, _, _)
processNode(this, node, basePath, rootName) ==
  IF node.type = "file" THEN
    IF isStructuredFile(node.name)
      THEN <<[path |-> PathJoin(basePath, node.name),
              schemaName |-> getSchemaName(node.name, basePath, rootName),
              outcome |-> inferFromFile(this, node)]>>
      ELSE <<>>
  ELSE Flatten([i \in 1..Len(node.children) |->
                  processNode(this, node.children[i], PathJoin(basePath, node.name), rootName)])

\* schemas[schemaName] = schema: a new key goes last, an old one keeps its place
SetKey(obj, k, x) ==
  IF HasKey(obj, k)
    THEN JObj([i \in 1..Len(obj.v) |-> IF obj.v[i].k = k THEN Entry(k, x) ELSE obj.v[i]])
    ELSE JObj(Append(obj.v, Entry(k, x)))

\* if (schema) schemas[schemaName] = schema
SetSchema(schemas, file) ==
  IF file.outcome.schema = <<>> THEN schemas
  ELSE SetKey(schemas, file.schemaName, file.outcome.schema[1])

\* the schema map after the first n files of the walk
RECURSIVE SchemasAfter(_, _)
SchemasAfter(files, n) ==
  IF n = 0 THEN JObj(<<>>) ELSE SetSchema(SchemasAfter(files, n - 1), files[n])

\* what inferSchemas returns after the walk gave files: it throws when an
\* inferFromFile did; else it returns the schema map (files keeps what each
\* structured file gave)
InferSchemasResult(files) ==
  IF \E i \in 1..Len(files) : files[i].outcome.threw
    THEN [threw |-> TRUE, files |-> files, schemas |-> JObj(<<>>)]
    ELSE [threw |-> FALSE, files |-> files, schemas |-> SchemasAfter(files, Len(files))]

inferSchemas(this, structure) ==
  InferSchemasResult(processNode(this, structure, <<>>, structure.name))

\* the names of the files and of the directory of the trees
FileNames ==
  { <<"b", ".", "json">>, <<"b", ".", "csv">>, <<"a", "_", "b", ".", "json">>,
    <<"c", ".", "yaml">>, <<"notes", ".", "txt">> }
ExportEntries ==
  {ExportFile(n, c) : n \in FileNames, c \in 0..Len(Contents)}
    \cup {ExportDir(<<"a">>, <<ExportFile(<<"b", ".", "json">>, c)>>) : c \in 0..Len(Contents)}
ExportTrees ==
  {ExportDir(<<"export">>, children) :
     children \in {cs \in SeqsUpTo(ExportEntries, MaxFiles) :
                     \A i, j \in 1..Len(cs) : i # j => cs[i].name # cs[j].name}}

\* the engine validate builds from the default options of the CLI
DefaultEngine ==
  [options |-> [mode |-> "strict", sampleSize |-> DefaultSampleSize,
                sampleStrategy |-> "first", maxArraySample |-> DefaultMaxArraySample,
                maxDepth |-> MaxLen],
   inst |-> 1]

InitBatch ==
  /\ InitStore
  /\ faultsLeft = 0
  /\ \E t \in ExportTrees : given = [structure |-> t, this |-> DefaultEngine]
  /\ returned = NotReturned

InferSchemas ==
  /\ ~returned.done
  /\ returned' = Returned(inferSchemas(given.this, given.structure))
  /\ UNCHANGED <<given, storeVars>>

NextBatch == InferSchemas
SpecBatch == InitBatch /\ [][NextBatch]_vars

(***************************************************************************)
(* Properties of the Version Manager                                       *)
(***************************************************************************)
\* the runs that are inside createVersion, past its choice of the version
Creating(p) == pc[p] \in CreateVersionStages \ {"readManifest"}
ListedVersions ==
  IF manifestFile.st = "ok"
  THEN {manifestFile.val.versions[i].version : i \in 1..Len(manifestFile.val.versions)}
  ELSE {}

\* C1: createVersion on a manifest without a latest version records version
\* 1.0.0 with changeType initial and breaking = false, whatever changeType
\* it was passed.
C1_EmptyGivesInitial ==
  \A p \in Procs :
    Creating(p) /\ run[p].manifest.latest = NoVersion =>
      /\ run[p].metadata.version = <<1, 0, 0>>
      /\ run[p].metadata.changeType = "initial"
      /\ run[p].metadata.breaking = FALSE

\* a createVersion on the empty manifest that was passed major
C1_Witness ==
  /\ pc[1] = "writeMetadata"
  /\ run[1].manifest.latest = NoVersion
  /\ run[1].changeTypeArg = "major"

\* C2: on a manifest whose latest is v, with the changes detected against
\* the previous snapshot: any breaking change gives the major bump of v
\* (minor and patch 0), else any minor change the minor bump (patch 0), else
\* the patch bump; so the runs initial, minor, major, patch from the empty
\* manifest give 1.0.0, 1.1.0, 2.0.0, 2.0.1.
C2_Bump(p) ==
  LET v == run[p].manifest.latest
      new == run[p].metadata.version
  IN Creating(p) /\ v # NoVersion /\ run[p].hasPrevious =>
       IF "breaking" \in run[p].severities THEN new = <<v[1] + 1, 0, 0>>
       ELSE IF "minor" \in run[p].severities THEN new = <<v[1], v[2] + 1, 0>>
       ELSE new = <<v[1], v[2], v[3] + 1>>

C2_Sequence ==
  LET versions == manifestFile.val.versions IN
  manifestFile.st = "ok" /\ Len(versions) = 4
    /\ [i \in 1..4 |-> versions[i].changeType] = <<"initial", "minor", "major", "patch">>
    => [i \in 1..4 |-> versions[i].version]
         = << <<1, 0, 0>>, <<1, 1, 0>>, <<2, 0, 0>>, <<2, 0, 1>> >>

C2_SeverityDecidesBump == C2_Sequence /\ \A p \in Procs : C2_Bump(p)

\* the four runs initial, minor, major, patch have been recorded
C2_Witness ==
  /\ manifestFile.st = "ok"
  /\ Len(manifestFile.val.versions) = 4
  /\ [i \in 1..4 |-> manifestFile.val.versions[i].changeType]
       = <<"initial", "minor", "major", "patch">>

\* C3: the version a createVersion call records is greater than every version
\* the manifest listed before the call: the listed versions strictly increase.
C3_VersionsIncrease ==
  manifestFile.st = "ok" =>
    \A i, j \in 1..Len(manifestFile.val.versions) :
      i < j => gt(manifestFile.val.versions[j].version, manifestFile.val.versions[i].version)

\* the metadata, structure and snapshot files of a version have been written
Persisted(version) ==
  /\ version \in DOMAIN versionDirs
  /\ versionDirs[version].metadata.written
  /\ versionDirs[version].structure.written
  /\ versionDirs[version].snapshot.written

\* C4: write-then-publish: whenever the manifest points to or lists a
\* version, also after a run was abandoned between two writes, the metadata,
\* structure and snapshot files of that version have been written.
C4_WriteThenPublish ==
  manifestFile.st = "ok" =>
    /\ manifestFile.val.latest # NoVersion => Persisted(manifestFile.val.latest)
    /\ \A v \in ListedVersions : Persisted(v)

\* a run was abandoned between its writes: a version directory is incomplete
\* while the manifest points to another version
C4_Witness ==
  /\ manifestFile.st = "ok"
  /\ manifestFile.val.latest # NoVersion
  /\ result[1] = "abandoned"
  /\ \E v \in DOMAIN versionDirs :
       versionDirs[v].metadata.written /\ ~versionDirs[v].snapshot.written

\* C5: when a write of createVersion fails, the run ends in an error and the
\* manifest is as it was before the call.
C5_FailedWriteKeepsManifest ==
  [][\A p \in Procs :
       pc[p] \in CreateVersionStages /\ pc'[p] = "idle" /\ result'[p] = "error"
         => manifestFile' = manifestFile]_vars

\* C6: two overlapping runs that both published (neither an initial run on a
\* manifest that has a latest version): their versions differ, the manifest
\* lists both entries, and each version directory holds the files of the run
\* that published it.
C6_OneVersionPerChange ==
  /\ pc[1] = "updateLink" /\ pc[2] = "updateLink"
  /\ \A p \in Procs : run[p].manifest.latest # NoVersion => run[p].changeTypeArg # "initial"
  =>
    /\ run[1].metadata.version # run[2].metadata.version
    /\ \A p \in Procs :
         /\ \E i \in 1..Len(manifestFile.val.versions) :
              manifestFile.val.versions[i] = run[p].metadata
         /\ DirOf(run[p].metadata.version).snapshot.by = p
         /\ DirOf(run[p].metadata.version).metadata.by = p

\* The store as its readers see it: the manifest (a missing one is Empty), the
\* latest pointer and the version directories
StoreView ==
  <<IF manifestFile.st = "none" THEN [st |-> "ok", val |-> EmptyManifest]
    ELSE [st |-> manifestFile.st, val |-> manifestFile.val],
    latestLink, versionDirs>>

\* The steps of validate before createVersion is called
BeforeCreateVersion == {"idle", "initialize", "initWrite", "getLatest", "loadSnapshot"}

\* The run of p is in CI mode with a threshold and a detected change is at or
\* above the threshold
AtOrAboveThreshold(p) ==
  /\ run[p].ci
  /\ run[p].failOn \in {"breaking", "minor", "patch"}
  /\ \E i \in 1..Len(DetectedChanges(p)) :
       \/ DetectedChanges(p)[i].severity = run[p].failOn
       \/ DetectedChanges(p)[i].severity = "breaking"
       \/ DetectedChanges(p)[i].severity = "minor" /\ run[p].failOn = "patch"

\* C15: CI gate: in CI mode with a failOn threshold, when a change detected
\* against the previous snapshot is at or above the threshold, the run exits
\* at that step without entering createVersion, and no step of a run before
\* createVersion changes the manifest, the latest pointer or the version
\* directories: they are as before the run.
C15_CIGate ==
  [][\A p \in Procs :
       /\ pc[p] = "loadSnapshot" /\ pc'[p] # "loadSnapshot" /\ AtOrAboveThreshold(p)
            => pc'[p] = "idle" /\ result'[p] = "exit"
       /\ pc[p] \in BeforeCreateVersion /\ pc'[p] \in BeforeCreateVersion /\ pc'[p] # pc[p]
            => StoreView' = StoreView]_vars

\* C25: per-version directory layout: when the reports step of a run that
\* created version v is taken, the directory of v holds the metadata file, the
\* structure file, the snapshot file and the schemas subdirectory, and, when a
\* previous snapshot existed and the json format is selected, after the step
\* the changes file of the run is in that same directory and the run has not
\* failed.
C25_VersionDirectoryLayout ==
  [][\A p \in Procs :
       pc[p] = "generateReports" /\ pc'[p] # "generateReports" =>
         LET dir == versionDirs'[run[p].metadata.version]
         IN /\ dir.metadata.st = "ok"
            /\ dir.structure.st = "ok"
            /\ dir.snapshot.st = "ok"
            /\ dir.schemasDir
            /\ run[p].hasPrevious /\ "json" \in run[p].format
                 => dir.changes.st = "ok" /\ result'[p] # "error"]_vars

\* C26: a run that goes through createVersion appends exactly one entry to
\* the manifest: the step that saves the manifest appends one entry, sets
\* latest to that entry's version and the entry's previousVersion is the
\* latest of before; no other step of the run from createVersion on changes
\* the manifest; latest is the version of the last entry; and a run whose
\* change detector found no change against a previous snapshot gets the patch
\* increment of the latest version.
AfterSaveManifest ==
  (CreateVersionStages \ {"readManifest", "saveManifest"})
    \cup {"generateReports", "generateSchemas"}
C26_OneEntryPerRun ==
  [][\A p \in Procs :
       LET old == manifestFile.val
           new == manifestFile'.val
           entry == new.versions[Len(new.versions)]
       IN /\ pc[p] = "saveManifest" /\ pc'[p] # "saveManifest" =>
               /\ manifestFile'.st = "ok"
               /\ new.versions = Append(old.versions, entry)
               /\ new.latest = entry.version
               /\ entry.previousVersion = old.latest
               /\ run[p].hasPrevious /\ run[p].severities = {} /\ old.latest # NoVersion
                    => entry.version = inc(old.latest, "patch") /\ entry.changeType = "patch"
          /\ pc[p] \in AfterSaveManifest \cup {"readManifest"} /\ pc'[p] # pc[p]
               => manifestFile' = manifestFile
          /\ manifestFile'.st = "ok" /\ new.versions # <<>> => new.latest = entry.version]_vars

\* a run that found no change against the previous snapshot has appended its
\* entry and passed the reports step
C26_Witness ==
  /\ pc[1] = "generateSchemas"
  /\ run[1].hasPrevious
  /\ run[1].severities = {}
  /\ Len(manifestFile.val.versions) >= 2
  /\ manifestFile.val.latest = run[1].metadata.version
  /\ run[1].metadata.changeType = "patch"

\* a run was stopped by the gate while the manifest lists a version
C15_Witness ==
  /\ result[1] = "exit"
  /\ pc[1] = "idle"
  /\ manifestFile.st = "ok"
  /\ manifestFile.val.latest # NoVersion
  /\ latestLink = manifestFile.val.latest

\* versions.json exists and cannot be parsed
ManifestCorrupt == manifestFile.st = "trunc"

\* C17: an unreadable manifest is never silently overwritten: while
\* versions.json exists and cannot be parsed, no step of initialize or
\* createVersion changes the file, and createVersion, unless the run is
\* abandoned there, ends in an error at its read of the manifest.
C17_CorruptManifestKept ==
  [][ManifestCorrupt =>
       /\ manifestFile' = manifestFile
       /\ \A p \in Procs :
            pc[p] = "readManifest" /\ pc'[p] # pc[p] /\ result'[p] # "abandoned"
              => pc'[p] = "idle" /\ result'[p] = "error"]_vars

\* a run with --snapshot has passed initialize and is at createVersion's read
\* of a manifest that an earlier failed write left unparseable
C17_Witness ==
  /\ ManifestCorrupt
  /\ pc[1] = "readManifest"
  /\ runs = 2

\* seq is a prefix of longer
IsPrefix(seq, longer) ==
  /\ Len(seq) <= Len(longer)
  /\ \A i \in 1..Len(seq) : longer[i] = seq[i]

\* C18: persisted versions are immutable: every step keeps the manifest
\* entries written before it, and leaves the metadata and snapshot files of
\* every version the manifest lists as they are.
C18_PersistedImmutable ==
  [][manifestFile.st = "ok" =>
       /\ manifestFile'.st = "ok"
       /\ IsPrefix(manifestFile.val.versions, manifestFile'.val.versions)
       /\ \A v \in ListedVersions :
            /\ DirOf(v).metadata' = DirOf(v).metadata
            /\ DirOf(v).snapshot' = DirOf(v).snapshot]_vars

\* a read operation of VersionManager has just returned or thrown
ReadStep == ~returned.done /\ returned'.done

\* C16: a read of a missing or unparseable manifest treats it as Empty:
\* getLatestVersion and getVersion return null and getVersionHistory returns
\* the empty list, and none of them throws.
C16_UnreadableManifestReadsEmpty ==
  [][ReadStep /\ ~ManifestReadable
       /\ returned'.value.op \in {"getLatestVersion", "getVersion", "getVersionHistory"}
       => ~returned'.value.error /\ returned'.value.value = <<>>]_vars

\* C19: getVersionHistory returns the manifest entries by version descending;
\* with a limit n it returns the first min(n, count) entries of that order,
\* also for n = 0; the manifest is left unchanged.
C19_History ==
  [][ReadStep /\ returned'.value.op = "getVersionHistory" /\ ~returned'.value.error =>
       LET history == returned'.value.value
           limit == returned'.value.args[1]
           all == manifestFile.val.versions
           left == {j \in 1..Len(all) : \A i \in 1..Len(history) : history[i] # all[j]}
       IN /\ \A i, j \in 1..Len(history) :
               i < j => ~gt(history[j].version, history[i].version)
          /\ \A i \in 1..Len(history) : \E j \in 1..Len(all) : all[j] = history[i]
          /\ \A j \in left : \A i \in 1..Len(history) :
               ~gt(all[j].version, history[i].version)
          /\ Len(history) = IF limit = NoLimit THEN Len(all) ELSE Min(limit, Len(all))
          /\ manifestFile' = manifestFile]_vars

\* what JSON.parse gives for the structure.snapshot.json a run wrote for version
PersistedSnapshot(version) ==
  LoadedSnapshot(Snaps(versionDirs[version].snapshot.by)[versionDirs[version].snapshot.val])

\* C20: compareVersions(a, b) returns the snapshots persisted in the
\* directories of a and b, with the two version names and nothing else (no
\* changes, no severity), and leaves the manifest, the latest pointer and
\* the version directories unchanged.
C20_CompareOnlyRetrieves ==
  [][ReadStep /\ returned'.value.op = "compareVersions" =>
       /\ <<manifestFile, latestLink, versionDirs>>' = <<manifestFile, latestLink, versionDirs>>
       /\ ~returned'.value.error =>
            LET a == returned'.value.args[1]
                b == returned'.value.args[2]
                comparison == returned'.value.value[1]
            IN /\ DOMAIN comparison = {"from", "to", "fromSnapshot", "toSnapshot"}
               /\ comparison.from = a /\ comparison.to = b
               /\ a \in DOMAIN versionDirs /\ versionDirs[a].snapshot.st = "ok"
               /\ b \in DOMAIN versionDirs /\ versionDirs[b].snapshot.st = "ok"
               /\ comparison.fromSnapshot = PersistedSnapshot(a)
               /\ comparison.toSnapshot = PersistedSnapshot(b)]_vars

\* two versions with different snapshots were compared
C20_Witness ==
  /\ returned.done
  /\ returned.value.op = "compareVersions"
  /\ ~returned.value.error
  /\ returned.value.args[1] # returned.value.args[2]
  /\ returned.value.value[1].fromSnapshot # returned.value.value[1].toSnapshot

(***************************************************************************)
(* Properties of the Change Detector                                       *)
(***************************************************************************)
Changes == returned.value
ChangeIndexes == 1..Len(Changes)

\* C7: self-diff is empty: detectChanges(S, S) returns the empty list.
C7_SelfDiffEmpty ==
  returned.done /\ given.current = given.previous => Changes = <<>>

\* a snapshot with two entries in its tree and a Zod object schema, diffed with itself
C7_Witness ==
  /\ returned.done
  /\ given.current = given.previous
  /\ Len(given.current.structure.children) = 2
  /\ Get(given.current.schemas, "users") = ZodObjectValue(UserShape(<<"id", "email">>), 1)

\* C8: every change of status removed is breaking and every change of status
\* added is minor.
C8_SeverityOfAddedRemoved ==
  returned.done =>
    \A i \in ChangeIndexes :
      /\ Changes[i].status = "removed" => Changes[i].severity = "breaking"
      /\ Changes[i].status = "added" => Changes[i].severity = "minor"

\* a diff with a removed and an added tree entry and a removed schema
C8_Witness ==
  /\ returned.done
  /\ \E i, j, k \in ChangeIndexes :
       /\ Changes[i].status = "removed" /\ Len(Changes[i].path) = 2
       /\ Changes[j].status = "added" /\ Len(Changes[j].path) = 2
       /\ Changes[k].status = "removed" /\ Changes[k].path = <<"users">>

\* a change of the file tree: its path starts at the root of the tree
IsTreeChange(change) == change.path[1] = given.current.structure.name

\* the paths of the entries of the two export directories that have the same
\* name and are a file in one snapshot and a directory in the other
KindMismatches ==
  LET current == given.current.structure
      previous == given.previous.structure
  IN {<<current.name, current.children[i].name>> :
        i \in {k \in 1..Len(current.children) :
                 /\ current.children[k].name \in ChildNames(previous)
                 /\ ChildNamed(previous, current.children[k].name).type
                      # current.children[k].type}}

\* C27: a kind mismatch short-circuits the tree diff: for a matched node that
\* is a file in one snapshot and a directory in the other, the result holds
\* exactly one change at that node's path, it is modified / type_changed /
\* breaking, and no change lies beneath that path.
C27_KindMismatchShortCircuits ==
  returned.done =>
    \A path \in KindMismatches :
      /\ Cardinality({i \in ChangeIndexes : Changes[i].path = path}) = 1
      /\ \A i \in ChangeIndexes :
           /\ Changes[i].path = path =>
                /\ Changes[i].status = "modified"
                /\ Changes[i].changes = <<"type_changed">>
                /\ Changes[i].severity = "breaking"
           /\ IsPrefix(path, Changes[i].path) => Changes[i].path = path

\* C28: sampling selects a bounded set of distinct items: getSamples returns
\* exactly min(L, sampleSize) items taken from pairwise distinct indices of the
\* input; the strategy first returns the prefix of length sampleSize; the
\* strategy stratified returns the first min(1000, sampleSize) items followed
\* by the draw the strategy random makes of the remaining
\* sampleSize - min(1000, sampleSize) items among the items from index 1000 on.
SampleCount ==
  Len(returned.value) = Min(Len(given.arr), given.this.options.sampleSize)
SampleDistinct ==
  /\ \A i \in 1..Len(returned.value) : returned.value[i] \in 1..Len(given.arr)
  /\ \A i, j \in 1..Len(returned.value) : i # j => returned.value[i] # returned.value[j]
SampleFirst ==
  given.this.options.sampleStrategy = "first" =>
    returned.value = Slice(given.arr, 0, given.this.options.sampleSize)
SampleStratified ==
  LET sampleSize == given.this.options.sampleSize
      head == Min(StratifiedHead, sampleSize)
      tail == Slice(given.arr, StratifiedHead, Len(given.arr))
  IN given.this.options.sampleStrategy = "stratified" /\ Len(given.arr) > sampleSize =>
       returned.value
         = Slice(given.arr, 0, head)
             \o RandomSamples(tail, sampleSize - head, <<>>, {}, given.rnd).samples
C28_SamplesDistinctAndBounded ==
  returned.done => SampleCount /\ SampleDistinct /\ SampleFirst /\ SampleStratified

\* what holds of C28: the count, the distinct indices and the prefix of first
C28_CountDistinctFirst ==
  returned.done => SampleCount /\ SampleDistinct /\ SampleFirst

\* a directory with a file in it was diffed against a file of the same name
C27_Witness ==
  /\ returned.done
  /\ \E path \in KindMismatches :
       LET here == ChildNamed(given.current.structure, path[2])
           there == ChildNamed(given.previous.structure, path[2])
       IN \/ here.type = "directory" /\ here.children # <<>>
          \/ there.type = "directory" /\ there.children # <<>>
  /\ \E i \in ChangeIndexes : Changes[i].changes = <<"type_changed">>

\* the schema names of the snapshots in lexical order
LexicalNames == <<"orders", "users">>
LexicalRank(name) == CHOOSE i \in 1..Len(LexicalNames) : LexicalNames[i] = name

\* C21: the list detectChanges returns has all file-tree changes first and
\* then the schema changes in lexical order of the schema name, whatever the
\* insertion order of the keys of the two schema maps.
C21_DeterministicOrder ==
  returned.done =>
    \A i, j \in ChangeIndexes :
      i < j =>
        /\ IsTreeChange(Changes[j]) => IsTreeChange(Changes[i])
        /\ ~IsTreeChange(Changes[i]) /\ ~IsTreeChange(Changes[j])
             => LexicalRank(Changes[i].path[1]) <= LexicalRank(Changes[j].path[1])

\* C22: every change of severity breaking or minor that detectChanges
\* returns carries a non-empty migration hint, for tree changes and for every
\* kind of schema difference.
C22_MigrationHint ==
  returned.done =>
    \A i \in ChangeIndexes :
      Changes[i].severity \in {"breaking", "minor"} => Changes[i].suggestedMigration # ""

\* the field names of a schema: of a plain field map its keys, of a Zod
\* object the keys of the shape its _def.shape returns
IsZodObject(schema) == Get(Get(schema, "_def"), "shape").t = "function"
SchemaFields(schema) ==
  IF IsZodObject(schema) THEN KeySet(Get(Get(schema, "_def"), "shape").v[2])
  ELSE IF schema.t = "object" /\ ~HasKey(schema, "_def") THEN KeySet(schema)
  ELSE {}

\* C10: a field of a named schema of the previous snapshot that the same
\* schema of the current snapshot no longer has is reported as a change with
\* path <schemaName>.<fieldName>, status removed and severity breaking.
C10_FieldRemovalReported ==
  returned.done =>
    \A name \in KeySet(given.previous.schemas) \cap KeySet(given.current.schemas) :
      LET before == Get(given.previous.schemas, name)
          after == Get(given.current.schemas, name)
      IN IsZodObject(before) = IsZodObject(after) /\ SchemaFields(after) # {} =>
           \A field \in SchemaFields(before) \ SchemaFields(after) :
             \E i \in ChangeIndexes :
               /\ Changes[i].path = <<name, field>>
               /\ Changes[i].status = "removed"
               /\ Changes[i].severity = "breaking"

\* two trees have the same shape: the same names and types, entry by entry
RECURSIVE SameShape(_, _)
SameShape(a, b) ==
  /\ a.name = b.name
  /\ a.type = b.type
  /\ Len(a.children) = Len(b.children)
  /\ \A i \in 1..Len(a.children) : SameShape(a.children[i], b.children[i])

\* the number of files of two trees of the same shape whose sizes differ
RECURSIVE SizeDifferences(_, _)
SizeDifferences(a, b) ==
  IF a.type = "file" THEN (IF a.size # b.size THEN 1 ELSE 0)
  ELSE IF a.children = <<>> THEN 0
  ELSE SizeDifferences(a.children[1], b.children[1])
         + SizeDifferences([a EXCEPT !.children = Tail(a.children)],
                           [b EXCEPT !.children = Tail(b.children)])

SizeOnlyChange ==
  /\ given.current.schemas = given.previous.schemas
  /\ SameShape(given.current.structure, given.previous.structure)
  /\ SizeDifferences(given.current.structure, given.previous.structure) = 1

\* C11: when two snapshots differ only in the byte size of one file (same
\* tree shape and names, identical schemas), detectChanges returns exactly
\* one change, of status modified and severity patch.
C11_SizeOnlyChange ==
  returned.done /\ SizeOnlyChange =>
    /\ Len(Changes) = 1
    /\ Changes[1].status = "modified"
    /\ Changes[1].severity = "patch"

\* the size of a file inside a subdirectory changed, under a Zod object schema
C11_Witness ==
  /\ returned.done
  /\ SizeOnlyChange
  /\ Changes[1].path = <<"export", "x", "a">>
  /\ Get(given.current.schemas, "users") = ZodObjectValue(UserShape(<<"id", "email">>), 1)
\* a change of the schema `name` with the change kind `kind` and the severity
HasSchemaChange(name, kind, severity) ==
  \E i \in ChangeIndexes :
    /\ Changes[i].path[1] = name
    /\ \E k \in 1..Len(Changes[i].changes) : Changes[i].changes[k] = kind
    /\ Changes[i].severity = severity

\* C14: a schema difference that only adds nullability yields a change of
\* kind nullable_added and severity minor; one that only removes nullability
\* yields nullable_removed and severity breaking.
C14_NullabilityDirection ==
  returned.done =>
    \A name \in KeySet(given.previous.schemas) \cap KeySet(given.current.schemas) :
      LET before == Get(given.previous.schemas, name)
          after == Get(given.current.schemas, name)
      IN /\ after = ZodNullableValue(before) => HasSchemaChange(name, "nullable_added", "minor")
         /\ before = ZodNullableValue(after)
              => HasSchemaChange(name, "nullable_removed", "breaking")

(***************************************************************************)
(* Properties of inferSchemas                                              *)
(***************************************************************************)
\* the structured files of the tree, each with its path from the root
StructuredFiles ==
  LET root == given.structure
      top == {i \in 1..Len(root.children) : root.children[i].type = "file"}
      dirs == {i \in 1..Len(root.children) : root.children[i].type = "directory"}
      nested == {<<i, j>> \in dirs \X (1..MaxFiles) : j <= Len(root.children[i].children)}
  IN {f \in {[path |-> PathJoin(root.name, root.children[i].name),
              node |-> root.children[i]] : i \in top}
             \cup {[path |-> PathJoin(PathJoin(root.name, root.children[n[1]].name),
                                      root.children[n[1]].children[n[2]].name),
                    node |-> root.children[n[1]].children[n[2]]] : n \in nested} :
        isStructuredFile(f.node.name)}

InferredFiles == returned.value.files

C30_UniqueSchemaNames ==
  returned.done /\ ~returned.value.threw =>
    LET inferred == {i \in 1..Len(InferredFiles) : InferredFiles[i].outcome.schema # <<>>}
    IN /\ \A i, j \in inferred :
            i # j => InferredFiles[i].schemaName # InferredFiles[j].schemaName
       /\ Len(returned.value.schemas.v) = Cardinality(inferred)

(***************************************************************************)
(* Properties of the Schema Inference Engine                               *)
(***************************************************************************)
\* Whether a schema accepts a value (schema.safeParse(value).success). A
\* string is taken to have a format when the regular expression that
\* inferStringSchema uses for the format matches it.
HasFormat(value, kind) ==
  CASE kind = "datetime" -> value \in DatetimeLike
    [] kind = "uuid" -> value \in UuidLike
    [] kind = "email" -> value \in EmailLike
    [] kind = "url" -> value \in UrlLike
    [] OTHER -> TRUE

RECURSIVE Conforms(_, _)
Conforms(value, schema) ==
  LET typeName == TypeNameOf(schema)
      def == Get(schema, "_def")
  IN CASE typeName = "ZodAny" -> TRUE
       [] typeName = "ZodNull" -> value.t = "null"
       [] typeName = "ZodUndefined" -> value.t = "undefined"
       [] typeName = "ZodNumber" -> value.t = "number"
       [] typeName = "ZodBoolean" -> value.t = "boolean"
       [] typeName = "ZodString" ->
            /\ value.t = "string"
            /\ \A i \in 1..Len(Get(def, "checks").v) :
                 HasFormat(value.v, Get(Get(def, "checks").v[i], "kind").v)
       [] typeName = "ZodArray" ->
            /\ value.t = "array"
            /\ \A i \in 1..Len(value.v) : Conforms(value.v[i], Get(def, "type"))
       [] typeName = "ZodObject" ->
            /\ value.t = "object"
            /\ \A k \in KeySet(ShapeOf(schema)) :
                 Conforms(Get(value, k), Get(ShapeOf(schema), k))
       [] typeName = "ZodUnion" ->
            \E i \in 1..Len(Get(def, "options").v) :
              Conforms(value, Get(def, "options").v[i])
       [] typeName = "ZodNullable" ->
            value.t = "null" \/ Conforms(value, Get(def, "innerType"))
       [] typeName = "ZodOptional" ->
            value.t = "undefined" \/ Conforms(value, Get(def, "innerType"))
       [] OTHER -> FALSE

\* every array of the value is no longer than the sample size, so that
\* every part of the value is sampled
RECURSIVE WhollySampled(_, _)
WhollySampled(value, sampleSize) ==
  IF value.t = "array" THEN
    /\ Len(value.v) <= sampleSize
    /\ \A i \in 1..Len(value.v) : WhollySampled(value.v[i], sampleSize)
  ELSE IF value.t = "object" THEN
    \A i \in 1..Len(value.v) : WhollySampled(value.v[i].x, sampleSize)
  ELSE TRUE

\* C9: Validity. A value all of whose parts are sampled conforms to the
\* schema inferred from it; in particular every element of a sampled array
\* conforms to the inferred element type, also when the elements are objects
\* with different field sets or strings of different formats.
C9_Validity ==
  (returned.done /\ given.format \in {"json", "csv"}
     /\ WhollySampled(given.data, given.this.options.sampleSize))
    => Conforms(given.data, returned.value.schema)

\* the schema a second inference of the same content with the same
\* configuration returns when Math.random gives it the draws d
SecondRun(d) ==
  IF given.format = "json"
    THEN inferFromValue(given.this, given.data, 0, Random(d)).schema
    ELSE inferCsvSchema(given.this, given.data.v, Random(d)).schema

\* the number of member types of the element type of an array schema
ElementMembers(schema) ==
  LET type == Get(Get(schema, "_def"), "type")
  IN IF TypeNameOf(type) = "ZodUnion"
     THEN Len(Get(Get(type, "_def"), "options").v)
     ELSE 1

\* C29: array inference is bounded by maxArraySample: the element type of an
\* array longer than maxArraySample is inferred from at most maxArraySample of
\* its elements (so it has at most that many member types), whatever
\* sampleSize is; an empty array is inferred as an array of unknown.
C29_ArrayBoundedByMaxArraySample ==
  returned.done /\ given.format = "json" /\ given.data.t = "array" =>
    /\ Len(given.data.v) > given.this.options.maxArraySample =>
         /\ Len(Parts(given.this, given.data, given.rnd).samples)
              <= given.this.options.maxArraySample
         /\ ElementMembers(returned.value.schema) <= given.this.options.maxArraySample
    /\ given.data.v = <<>> => returned.value.schema = ZodArrayValue(ZodAnyValue)

\* what holds of C29: the schema of an empty array
C29_EmptyArray ==
  returned.done /\ given.format = "json" /\ given.data.t = "array" /\ given.data.v = <<>>
    => returned.value.schema = ZodArrayValue(ZodAnyValue)

\* C23: inference is deterministic: a second inference of the same content
\* with the same configuration returns the same schema, for each of the
\* strategies first, random and stratified, also when the content is longer
\* than sampleSize.  (The configuration holds no seed: the draws of
\* Math.random are not an input of the engine.)
C23_Deterministic ==
  returned.done =>
    \A d \in DrawsFor(given.this) : SecondRun(d) = returned.value.schema

\* The sampled value is an array of sibling records, all of them sampled, and
\* the element type inferred for it is an object schema
SiblingRecords ==
  /\ returned.done
  /\ given.data.t = "array"
  /\ Len(given.data.v) > 0
  /\ Len(given.data.v) <= given.this.options.sampleSize
  /\ \A i \in 1..Len(given.data.v) : given.data.v[i].t = "object"
  /\ TypeNameOf(returned.value.schema) = "ZodArray"
  /\ TypeNameOf(Get(Get(returned.value.schema, "_def"), "type")) = "ZodObject"
RecordShape == ShapeOf(Get(Get(returned.value.schema, "_def"), "type"))
RecordKeys == UNION {KeySet(given.data.v[i]) : i \in 1..Len(given.data.v)}
NullCount(key) ==
  Cardinality({i \in 1..Len(given.data.v) : Get(given.data.v[i], key).t = "null"})

\* a field schema is wrapped Nullable, directly or under Optional
IsNullable(schema) ==
  \/ TypeNameOf(schema) = "ZodNullable"
  \/ /\ TypeNameOf(schema) = "ZodOptional"
     /\ TypeNameOf(Get(Get(schema, "_def"), "innerType")) = "ZodNullable"

\* the nullability policy: nullCount nulls among count samples
WrapsNullable(mode, nullCount, count) ==
  CASE mode = "strict" -> nullCount > 0
    [] mode = "loose" -> FALSE
    [] mode = "auto" -> nullCount * 100 > 5 * count
    [] OTHER -> FALSE

NullabilityPolicyHolds ==
  \A key \in RecordKeys :
    (HasKey(RecordShape, key) /\ IsNullable(Get(RecordShape, key)))
      <=> WrapsNullable(given.this.options.mode, NullCount(key), Len(given.data.v))

\* C12: the nullability policy of the fields of sampled sibling records: in
\* mode strict a field is wrapped Nullable iff at least one sampled value is
\* null, in mode loose never, in mode auto iff nullCount / sampleSize > 0.05
\* (1 null in 20 samples is not, 2 nulls in 20 are).
C12_NullabilityPolicy == SiblingRecords => NullabilityPolicyHolds

\* the same for the records of a CSV file only
CsvNullabilityPolicy == SiblingRecords /\ given.format = "csv" => NullabilityPolicyHolds
\* twenty CSV records with one null and with two nulls, in mode auto
CsvNullabilityBoundary ==
  /\ SiblingRecords
  /\ given.format = "csv"
  /\ given.this.options.mode = "auto"
  /\ Len(given.data.v) = 20
  /\ NullCount("a") = 2

\* the number of the sampled records that have the field
KeyOccurrences(key) ==
  Cardinality({i \in 1..Len(given.data.v) : HasKey(given.data.v[i], key)})

OptionalityHolds ==
  \A key \in RecordKeys :
    /\ HasKey(RecordShape, key)
    /\ TypeNameOf(Get(RecordShape, key)) = "ZodOptional"
         <=> KeyOccurrences(key) < Len(given.data.v)

\* C13: every field name that occurs in at least one of the sampled sibling
\* records (CSV rows or elements of a JSON array) appears in the inferred
\* object schema, and it is Optional exactly when fewer than all of the
\* sampled records have it.
C13_Optionality == SiblingRecords => OptionalityHolds

\* the same for the records of a CSV file only
CsvOptionality == SiblingRecords /\ given.format = "csv" => OptionalityHolds
\* two CSV records, one of them without the field b
CsvOptionalField ==
  /\ SiblingRecords
  /\ given.format = "csv"
  /\ KeyOccurrences("b") = 1
  /\ Len(given.data.v) = 2

====
